---- MODULE Spec2Model ----
(***************************************************************************)
(* Model of the query-parsing and function-dispatch pipeline of            *)
(* FinancialAdvisorBot (src/chatbot_app.py) as it is driven by the /query  *)
(* route of src/app.py.                                                    *)
(*                                                                         *)
(* Text is modelled as a sequence of one-character strings, so that        *)
(* str.lower, str.upper, str.split, str.isalpha and the substring test     *)
(* "keyword in query" are computed as Python computes them.                *)
(***************************************************************************)
EXTENDS Integers, Sequences, FiniteSets, TLC

(***************************************************************************)
(* Bounds of the model.                                                    *)
(***************************************************************************)
\* number of process_query calls made on the bot in one behaviour
MaxQueries == 2
\* The request threads of the server that call bot.process_query.  Calls
\* that the caller serializes are calls of one thread after another, and a
\* call leaves nothing behind in its thread, so one thread stands for them.
Threads == {1}

(***************************************************************************)
(* Characters and Python's str predicates.                                 *)
(***************************************************************************)
LowerChars ==
    <<"a","b","c","d","e","f","g","h","i","j","k","l","m",
      "n","o","p","q","r","s","t","u","v","w","x","y","z">>

UpperChars ==
    <<"A","B","C","D","E","F","G","H","I","J","K","L","M",
      "N","O","P","Q","R","S","T","U","V","W","X","Y","Z">>

DigitChars == <<"0","1","2","3","4","5","6","7","8","9">>

Range(s) == {s[i] : i \in DOMAIN s}

IsLowerChar(c) == c \in Range(LowerChars)
IsUpperChar(c) == c \in Range(UpperChars)
IsDigitChar(c) == c \in Range(DigitChars)
IsSpaceChar(c) == c = " "

\* str.isalpha / str.isalnum on one character
IsAlphaChar(c) == IsLowerChar(c) \/ IsUpperChar(c)
IsAlnumChar(c) == IsAlphaChar(c) \/ IsDigitChar(c)

LetterIndex(letters, c) == CHOOSE i \in DOMAIN letters : letters[i] = c

UpperChar(c) == IF IsLowerChar(c) THEN UpperChars[LetterIndex(LowerChars, c)] ELSE c
LowerChar(c) == IF IsUpperChar(c) THEN LowerChars[LetterIndex(UpperChars, c)] ELSE c

\* str.upper() and str.lower()
StrUpper(s) == [i \in DOMAIN s |-> UpperChar(s[i])]
StrLower(s) == [i \in DOMAIN s |-> LowerChar(s[i])]

\* str.isalpha(): non-empty and every character alphabetic
StrIsAlpha(s) == Len(s) > 0 /\ \A i \in DOMAIN s : IsAlphaChar(s[i])

\* "needle in haystack" for strings
StrContains(haystack, needle) ==
    \E i \in 1..(Len(haystack) - Len(needle) + 1) :
        SubSeq(haystack, i, i + Len(needle) - 1) = needle

\* str.split() without arguments: split on runs of whitespace, no empty words
RECURSIVE SplitFrom(_, _, _, _)
SplitFrom(s, i, cur, acc) ==
    IF i > Len(s)
    THEN IF cur = <<>> THEN acc ELSE Append(acc, cur)
    ELSE IF IsSpaceChar(s[i])
         THEN SplitFrom(s, i + 1, <<>>, IF cur = <<>> THEN acc ELSE Append(acc, cur))
         ELSE SplitFrom(s, i + 1, Append(cur, s[i]), acc)

StrSplit(s) == SplitFrom(s, 1, <<>>, <<>>)

\* ''.join(c for c in word if c.isalnum())
StripNonAlnum(word) == SelectSeq(word, IsAlnumChar)

(***************************************************************************)
(* Keyword sets of the intent router, in the order the code tests them.    *)
(***************************************************************************)
StockKeywords ==
    << <<"s","t","o","c","k">>,
       <<"t","i","c","k","e","r">>,
       <<"s","h","a","r","e"," ","p","r","i","c","e">>,
       <<"s","t","o","c","k"," ","p","r","i","c","e">> >>

LoanKeywords ==
    << <<"l","o","a","n">>,
       <<"m","o","r","t","g","a","g","e">>,
       <<"p","a","y","m","e","n","t">>,
       <<"i","n","t","e","r","e","s","t">> >>

InvestmentKeywords ==
    << <<"i","n","v","e","s","t">>,
       <<"c","o","m","p","o","u","n","d">>,
       <<"g","r","o","w","t","h">>,
       <<"r","e","t","u","r","n">> >>

RetirementKeywords ==
    << <<"r","e","t","i","r","e">>,
       <<"r","e","t","i","r","e","m","e","n","t">>,
       <<"4","0","1","k">>,
       <<"p","e","n","s","i","o","n">> >>

BudgetKeywords ==
    << <<"b","u","d","g","e","t">>,
       <<"s","p","e","n","d","i","n","g">>,
       <<"e","x","p","e","n","s","e">>,
       <<"i","n","c","o","m","e">> >>

\* any(keyword in query.lower() for keyword in keywords)
AnyKeyword(text, keywords) ==
    \E k \in DOMAIN keywords : StrContains(StrLower(text), keywords[k])

(***************************************************************************)
(* _extract_ticker_symbols                                                 *)
(***************************************************************************)
\* the test of line 513, applied to a word already stripped of punctuation
IsPotentialTicker(word) ==
    StrIsAlpha(word) /\ Len(word) <= 5 /\ word = StrUpper(word)

\* the whole query is upper-cased before it is split into words
ExtractTickerWords(text) == StrSplit(StrUpper(text))

RECURSIVE CollectTickers(_, _, _)
CollectTickers(words, i, potential_tickers) ==
    IF i > Len(words) THEN potential_tickers
    ELSE LET word == StripNonAlnum(words[i])
         IN  CollectTickers(words, i + 1,
                 IF IsPotentialTicker(word)
                 THEN Append(potential_tickers, word)
                 ELSE potential_tickers)

extract_ticker_symbols(text) ==
    CollectTickers(ExtractTickerWords(text), 1, <<>>)

(***************************************************************************)
(* The if/elif chain of parse_financial_query: the domain whose branch is  *)
(* entered.                                                                *)
(***************************************************************************)
\* variant: the investment keywords are tested before the loan keywords
RouteDomain_InvestmentFirst(text) ==
    IF AnyKeyword(text, StockKeywords) THEN "stock"
    ELSE IF AnyKeyword(text, InvestmentKeywords) THEN "investment"
    ELSE IF AnyKeyword(text, LoanKeywords) THEN "loan"
    ELSE IF AnyKeyword(text, RetirementKeywords) THEN "retirement"
    ELSE IF AnyKeyword(text, BudgetKeywords) THEN "budget"
    ELSE "none"

\* variant: a stock match without a ticker falls through to the next test
RouteDomain_FallsThrough(text) ==
    IF AnyKeyword(text, StockKeywords) /\ extract_ticker_symbols(text) # <<>>
    THEN "stock"
    ELSE IF AnyKeyword(text, LoanKeywords) THEN "loan"
    ELSE IF AnyKeyword(text, InvestmentKeywords) THEN "investment"
    ELSE IF AnyKeyword(text, RetirementKeywords) THEN "retirement"
    ELSE IF AnyKeyword(text, BudgetKeywords) THEN "budget"
    ELSE "none"

RouteDomain(text) ==
    IF AnyKeyword(text, StockKeywords) THEN "stock"
    ELSE IF AnyKeyword(text, LoanKeywords) THEN "loan"
    ELSE IF AnyKeyword(text, InvestmentKeywords) THEN "investment"
    ELSE IF AnyKeyword(text, RetirementKeywords) THEN "retirement"
    ELSE IF AnyKeyword(text, BudgetKeywords) THEN "budget"
    ELSE "none"

(***************************************************************************)
(* JSON values as json.loads produces them.  A parsed object is a function *)
(* from its keys to values; a key that is absent is not in its domain.     *)
(***************************************************************************)
Null == [t |-> "null"]
Num(n) == [t |-> "num", v |-> n]
Obj(m) == [t |-> "obj", v |-> m]

\* Python's None as the value of function_call, function_result and of an
\* extractor that found no parameters
None == [t |-> "None"]

\* dict.get(key) and dict.get(key, default)
Get(params, key) == IF key \in DOMAIN params THEN params[key] ELSE Null
GetDefault(params, key, default) ==
    IF key \in DOMAIN params THEN params[key] ELSE Num(default)

\* truth value of a JSON value in a Python condition
Truthy(x) ==
    \/ x.t = "num" /\ x.v # 0
    \/ x.t = "obj" /\ DOMAIN x.v # {}

\* float(x) and int(x) succeed on numbers and raise TypeError on None/dict
Converts(x) == x.t = "num"

(***************************************************************************)
(* Outcome of one LLM round trip (requests.post + response.json()).        *)
(*   raises     the post or the decoding of the body raises                *)
(*   nochoices  the body has no "choices" or an empty list                 *)
(*   choices    the first choice's message content is the text             *)
(***************************************************************************)
Texts == {"text_a", "text_b"}

ChatOutcomes ==
    {[kind |-> "raises"], [kind |-> "nochoices"]}
        \cup {[kind |-> "choices", content |-> x] : x \in Texts}

(***************************************************************************)
(* Outcome of the extraction round trip of a parameter extractor.          *)
(*   malformed  the content, cut from its first "{" to its last "}", is    *)
(*              not a JSON object (json.loads or params.get raises)        *)
(*   object     the cut content parses to the object obj                   *)
(***************************************************************************)
LoanObjects ==
    { [principal |-> Num(1000), interest_rate |-> Num(5), years |-> Num(1)],
      [principal |-> Num(1000), interest_rate |-> Null, years |-> Num(1)],
      [principal |-> Num(1000), interest_rate |-> Num(5)] }

InvestmentObjects ==
    { [initial_investment |-> Num(1000), monthly_contribution |-> Num(0),
       annual_return |-> Num(0), years |-> Num(2)],
      [initial_investment |-> Num(1000), monthly_contribution |-> Null,
       annual_return |-> Num(7), years |-> Num(2)],
      [initial_investment |-> Num(1000), years |-> Num(2)] }

RetirementObjects ==
    { [current_age |-> Num(40)],
      [expected_return |-> Num(0)],
      [current_age |-> Num(65)],
      [current_age |-> Null, retirement_age |-> Num(60)] }

BudgetObjects ==
    { [income |-> Num(5000), expenses |-> Obj([housing |-> 1500, dining |-> 200])],
      [income |-> Num(5000), expenses |-> Num(1500)],
      [income |-> Num(5000), expenses |-> Obj(<<>>)],
      [income |-> Num(5000)] }

ObjectsOf(branch) ==
    CASE branch = "loan" -> LoanObjects
      [] branch = "investment" -> InvestmentObjects
      [] branch = "retirement" -> RetirementObjects
      [] branch = "budget" -> BudgetObjects
      [] OTHER -> {}

ExtractionOutcomes(branch) ==
    {[kind |-> "raises"], [kind |-> "nochoices"], [kind |-> "malformed"]}
        \cup {[kind |-> "object", obj |-> o] : o \in ObjectsOf(branch)}

(***************************************************************************)
(* The four parameter extractors, as functions of the extraction outcome.  *)
(* Every exception is caught and mapped to None.                           *)
(***************************************************************************)
\* variant: a missing or null interest_rate is replaced by a default of 5
extract_loan_parameters_defaulted(resp) ==
    IF resp.kind # "object" THEN None
    ELSE LET params == resp.obj
         IN  IF Truthy(Get(params, "principal")) /\ Truthy(Get(params, "years"))
             THEN [principal |-> params["principal"].v,
                   interest_rate |->
                       IF Truthy(Get(params, "interest_rate"))
                       THEN params["interest_rate"].v ELSE 5,
                   years |-> params["years"].v]
             ELSE None

extract_loan_parameters(resp) ==
    IF resp.kind # "object" THEN None
    ELSE LET params == resp.obj
         IN  IF /\ Truthy(Get(params, "principal"))
                /\ Truthy(Get(params, "interest_rate"))
                /\ Truthy(Get(params, "years"))
             THEN IF /\ Converts(params["principal"])
                     /\ Converts(params["interest_rate"])
                     /\ Converts(params["years"])
                  THEN [principal |-> params["principal"].v,
                        interest_rate |-> params["interest_rate"].v,
                        years |-> params["years"].v]
                  ELSE None
             ELSE None

extract_investment_parameters(resp) ==
    IF resp.kind # "object" THEN None
    ELSE LET params == resp.obj
         IN  IF /\ Get(params, "initial_investment") # Null
                /\ Get(params, "monthly_contribution") # Null
                /\ Get(params, "annual_return") # Null
                /\ Get(params, "years") # Null
             THEN IF /\ Converts(params["initial_investment"])
                     /\ Converts(params["monthly_contribution"])
                     /\ Converts(params["annual_return"])
                     /\ Converts(params["years"])
                  THEN [initial_investment |-> params["initial_investment"].v,
                        monthly_contribution |-> params["monthly_contribution"].v,
                        annual_return |-> params["annual_return"].v,
                        years |-> params["years"].v]
                  ELSE None
             ELSE None

\* inflation_rate's default 2.5 is kept in tenths of a percent
RetirementDefaults ==
    [current_age |-> 30, retirement_age |-> 65, life_expectancy |-> 90,
     annual_expenses |-> 50000, inflation_rate_tenths |-> 25,
     current_savings |-> 0, monthly_contribution |-> 500,
     expected_return |-> 7]

RetirementFields ==
    {"current_age", "retirement_age", "life_expectancy", "annual_expenses",
     "inflation_rate", "current_savings", "monthly_contribution",
     "expected_return"}

extract_retirement_parameters(resp) ==
    IF resp.kind # "object" THEN None
    ELSE LET params == resp.obj
             d == RetirementDefaults
         IN  IF \A k \in RetirementFields \cap DOMAIN params : Converts(params[k])
             THEN [current_age |-> GetDefault(params, "current_age", d.current_age).v,
                   retirement_age |-> GetDefault(params, "retirement_age", d.retirement_age).v,
                   life_expectancy |-> GetDefault(params, "life_expectancy", d.life_expectancy).v,
                   annual_expenses |-> GetDefault(params, "annual_expenses", d.annual_expenses).v,
                   inflation_rate_tenths |->
                       IF "inflation_rate" \in DOMAIN params
                       THEN 10 * params["inflation_rate"].v
                       ELSE d.inflation_rate_tenths,
                   current_savings |-> GetDefault(params, "current_savings", d.current_savings).v,
                   monthly_contribution |-> GetDefault(params, "monthly_contribution", d.monthly_contribution).v,
                   expected_return |-> GetDefault(params, "expected_return", d.expected_return).v]
             ELSE None

extract_budget_parameters(resp) ==
    IF resp.kind # "object" THEN None
    ELSE LET params == resp.obj
         IN  IF Truthy(Get(params, "income")) /\ Truthy(Get(params, "expenses"))
             THEN IF Converts(params["income"])
                  THEN [income |-> params["income"].v,
                        expenses_dict |-> params["expenses"]]
                  ELSE None
             ELSE None

Extractor(branch, resp) ==
    CASE branch = "loan" -> extract_loan_parameters(resp)
      [] branch = "investment" -> extract_investment_parameters(resp)
      [] branch = "retirement" -> extract_retirement_parameters(resp)
      [] branch = "budget" -> extract_budget_parameters(resp)

FunctionOf(branch) ==
    CASE branch = "stock" -> "get_stock_data"
      [] branch = "loan" -> "calculate_loan_payment"
      [] branch = "investment" -> "calculate_investment_growth"
      [] branch = "retirement" -> "calculate_retirement_needs"
      [] branch = "budget" -> "analyze_budget"

(***************************************************************************)
(* The calculators.  Each body is one try block: a result is either        *)
(* {status: success, data} or {status: error, message}.  The message is    *)
(* the fixed prefix of the f-string; the fields of data that are floating  *)
(* point sums and powers are not carried, the integer ones are.            *)
(***************************************************************************)
Error(message) == [status |-> "error", message |-> message]
Success(data) == [status |-> "success", data |-> data]

\* What the market-data provider does for one lookup: it raises, or it
\* answers with an empty history frame, or with a frame that has rows (whose
\* to_dict() is keyed by pandas Timestamps).
ProviderOutcomes == {"raises", "empty_history", "history_rows"}

\* data stands for the quote the provider gave for this ticker; of its fields
\* only historical_data is told apart (empty, or keyed by Timestamps)
get_stock_data(ticker, provider) ==
    IF provider = "raises"
    THEN Error("Failed to retrieve stock data")
    ELSE Success([ticker |-> ticker,
                  historical_data |->
                      IF provider = "empty_history" THEN "empty" ELSE "timestamp_keys"])

\* an exception that leaves a function instead of a result
Raised(exception) == [status |-> "raised", exception |-> exception]

\* variant: the body is not inside a try block
calculate_loan_payment_Unguarded(principal, interest_rate, years) ==
    LET n_payments == years * 12
    IN  IF n_payments = 0
        THEN Raised("ZeroDivisionError")
        ELSE Success([principal |-> principal,
                      interest_rate |-> interest_rate,
                      total_payments |-> n_payments])

\* n_payments = 0 makes both payment formulas divide by zero
calculate_loan_payment(principal, interest_rate, years) ==
    LET n_payments == years * 12
    IN  IF n_payments = 0
        THEN Error("Failed to calculate loan payment")
        ELSE Success([principal |-> principal,
                      interest_rate |-> interest_rate,
                      total_payments |-> n_payments])

\* additions and multiplications only: no input makes the body raise
calculate_investment_growth(initial_investment, monthly_contribution, annual_return, years) ==
    LET n_months == years * 12
    IN  Success([initial_investment |-> initial_investment,
                 monthly_contribution |-> monthly_contribution,
                 annual_return |-> annual_return,
                 n_months |-> n_months])

\* variant: a zero rate is guarded
calculate_retirement_needs_ZeroRateGuarded(p) ==
    LET years_to_retirement == p.retirement_age - p.current_age
        years_in_retirement == p.life_expectancy - p.retirement_age
        n_months == years_to_retirement * 12
    IN  IF p.expected_return # 0
             /\ n_months = 0 /\ p.annual_expenses * 25 - p.current_savings > 0
        THEN Error("Failed to calculate retirement needs")
        ELSE Success([years_to_retirement |-> years_to_retirement,
                      years_in_retirement |-> years_in_retirement,
                      monthly_contribution |-> p.monthly_contribution])

\* line 274 divides by monthly_rate; line 284 divides by
\* (1 + monthly_rate) ** n_months - 1, which is 0 when n_months = 0, and is
\* reached when shortfall > 0 (with n_months = 0 the shortfall is
\* annual_expenses * 25 - current_savings)
calculate_retirement_needs(p) ==
    LET years_to_retirement == p.retirement_age - p.current_age
        years_in_retirement == p.life_expectancy - p.retirement_age
        n_months == years_to_retirement * 12
    IN  IF p.expected_return = 0
        THEN Error("Failed to calculate retirement needs")
        ELSE IF n_months = 0 /\ p.annual_expenses * 25 - p.current_savings > 0
        THEN Error("Failed to calculate retirement needs")
        ELSE Success([years_to_retirement |-> years_to_retirement,
                      years_in_retirement |-> years_in_retirement,
                      monthly_contribution |-> p.monthly_contribution])

RECURSIVE SumOver(_, _)
SumOver(f, keys) ==
    IF keys = {} THEN 0
    ELSE LET k == CHOOSE x \in keys : TRUE
         IN  f[k] + SumOver(f, keys \ {k})

\* expenses_dict.values() raises AttributeError when expenses_dict is a number
analyze_budget(income, expenses_dict) ==
    IF expenses_dict.t # "obj"
    THEN Error("Failed to analyze budget")
    ELSE LET total_expenses == SumOver(expenses_dict.v, DOMAIN expenses_dict.v)
         IN  Success([income |-> income,
                      total_expenses |-> total_expenses,
                      savings |-> income - total_expenses])

\* the dispatch of process_query, lines 773-782
Dispatch(function_name, parameters, provider) ==
    CASE function_name = "get_stock_data" ->
             get_stock_data(parameters.ticker, provider)
      [] function_name = "calculate_loan_payment" ->
             calculate_loan_payment(parameters.principal, parameters.interest_rate,
                                    parameters.years)
      [] function_name = "calculate_investment_growth" ->
             calculate_investment_growth(parameters.initial_investment,
                                         parameters.monthly_contribution,
                                         parameters.annual_return, parameters.years)
      [] function_name = "calculate_retirement_needs" ->
             calculate_retirement_needs(parameters)
      [] function_name = "analyze_budget" ->
             analyze_budget(parameters.income, parameters.expenses_dict)

\* json.dumps(function_result) raises TypeError on a dict keyed by Timestamps
JsonDumpsRaises(result) ==
    /\ result.status = "success"
    /\ "historical_data" \in DOMAIN result.data
    /\ result.data.historical_data = "timestamp_keys"

\* f"Function {name} returned: {json.dumps(function_result)}"
ResultMessage(function_name, result) ==
    <<"Function", function_name, "returned:", result>>

(***************************************************************************)
(* The conversation transcript and the replies.                            *)
(***************************************************************************)
Turn(role, content) == [role |-> role, content |-> content]

\* content of a turn: the system prompt, a user's query, a text produced by
\* the language model, or the message built from a calculator result
PromptContent == [kind |-> "system_prompt"]
QueryContent(q) == [kind |-> "query", query |-> q]
ModelContent(x) == [kind |-> "model_text", text |-> x]
ResultContent(function_name, result) ==
    [kind |-> "function_result", message |-> ResultMessage(function_name, result)]

InitialHistory == << Turn("system", PromptContent) >>

\* the two error returns of parse_financial_query, passed on by process_query
LanguageModelError == Error("Failed to get response from language model")
ParseError == Error("Failed to parse financial query")

\* the return of lines 821-825
PlainReply(q, response) ==
    [status |-> "success", query |-> q, response |-> response]

\* variant: an error-status calculator result is returned as the reply
FunctionReply_ErrorSurfaced(q, narration, result) ==
    IF result.status = "error"
    THEN result
    ELSE [status |-> "success", query |-> q, response |-> narration,
          function_result |-> result]

\* the return of lines 812-817
FunctionReply(q, narration, result) ==
    [status |-> "success", query |-> q, response |-> narration,
     function_result |-> result]

AssistantIndexes(history) == {i \in DOMAIN history : history[i].role = "assistant"}

Max(S) == CHOOSE x \in S : \A y \in S : y <= x

\* variant: the search runs forwards and stops at the first assistant turn
LastAssistantIndex_First(history) ==
    IF AssistantIndexes(history) = {} THEN 0
    ELSE CHOOSE x \in AssistantIndexes(history) :
             \A y \in AssistantIndexes(history) : x <= y

\* the index found by the backwards search of lines 804-807 (0: none found)
LastAssistantIndex(history) ==
    IF AssistantIndexes(history) = {} THEN 0 ELSE Max(AssistantIndexes(history))

\* variant: the narration is always appended as a new assistant turn
UpdateLastAssistant_Appends(history, narration) ==
    Append(history, Turn("assistant", ModelContent(narration)))

\* lines 804-810: overwrite the most recent assistant turn, or append one
UpdateLastAssistant(history, narration) ==
    LET i == LastAssistantIndex(history)
    IN  IF i # 0
        THEN [history EXCEPT ![i].content = ModelContent(narration)]
        ELSE Append(history, Turn("assistant", ModelContent(narration)))

(***************************************************************************)
(* The queries sent to /query in the model.                                *)
(***************************************************************************)
\* "What is the stock price of AAPL today?"
QPriceOfAAPL ==
    <<"W","h","a","t"," ","i","s"," ","t","h","e"," ","s","t","o","c","k"," ",
      "p","r","i","c","e"," ","o","f"," ","A","A","P","L"," ","t","o","d","a","y","?">>

\* "Ticker TSLA"
QTickerTSLA == <<"T","i","c","k","e","r"," ","T","S","L","A">>

\* "ticker mortgage"
QTickerMortgage == <<"t","i","c","k","e","r"," ","m","o","r","t","g","a","g","e">>

\* "mortgage payment"
QMortgagePayment == <<"m","o","r","t","g","a","g","e"," ","p","a","y","m","e","n","t">>

\* "invest loan"
QInvestLoan == <<"i","n","v","e","s","t"," ","l","o","a","n">>

\* "compound growth"
QCompoundGrowth == <<"c","o","m","p","o","u","n","d"," ","g","r","o","w","t","h">>

\* "retirement budget"
QRetirementBudget ==
    <<"r","e","t","i","r","e","m","e","n","t"," ","b","u","d","g","e","t">>

\* "budget"
QBudget == <<"b","u","d","g","e","t">>

\* "hello"
QHello == <<"h","e","l","l","o">>

Queries ==
    { QPriceOfAAPL, QTickerTSLA, QTickerMortgage, QMortgagePayment, QInvestLoan,
      QCompoundGrowth, QRetirementBudget, QBudget, QHello }

\* no extractor or calculator is being evaluated on its own
NoEvaluation == [function |-> "none", done |-> FALSE]

(***************************************************************************)
(* State.                                                                  *)
(***************************************************************************)
VARIABLES
    conversation_history,   \* self.conversation_history of the one global bot
    started,                \* number of process_query calls made so far
    pc,                     \* per thread: position inside process_query
    query,                  \* per thread: the argument of process_query
    entry_history,          \* per thread: the transcript when the call was entered
    sent,                   \* per thread: "messages" of its latest chat request
    assistant_response,     \* per thread: text of the primary reply
    domain,                 \* per thread: branch of the if/elif chain entered
    extraction,             \* per thread: outcome of the extraction round trip
    updated_response,       \* per thread: text of the follow-up reply
    ticker_symbols,         \* per thread: result of _extract_ticker_symbols
    function_call,          \* per thread: parsed_result["function_call"]
    function_result,        \* per thread: result of the dispatched calculator
    reply,                  \* per thread: value returned by process_query
    steps,                  \* per thread: the steps of the current call, in order
    assistant_at,           \* per thread: index at which its primary reply was appended (0: not yet)
    evaluation              \* one call of an extractor or calculator on its own: input and result

vars ==
    << conversation_history, started, pc, query, entry_history, sent,
       assistant_response, domain, extraction, updated_response, ticker_symbols,
       function_call, function_result, reply, steps, assistant_at, evaluation >>

\* the variables of process_query and of the bot it runs on
pipeline_vars ==
    << conversation_history, started, pc, query, entry_history, sent,
       assistant_response, domain, extraction, updated_response, ticker_symbols,
       function_call, function_result, reply, steps, assistant_at >>

Ev(op, arg) == [op |-> op, arg |-> arg]

\* the state after FinancialAdvisorBot() is constructed, no call running
Idle(threads) ==
    /\ conversation_history = InitialHistory
    /\ started = 0
    /\ pc = [t \in threads |-> "idle"]
    /\ query = [t \in threads |-> <<>>]
    /\ entry_history = [t \in threads |-> <<>>]
    /\ sent = [t \in threads |-> <<>>]
    /\ assistant_response = [t \in threads |-> ""]
    /\ domain = [t \in threads |-> "none"]
    /\ extraction = [t \in threads |-> None]
    /\ updated_response = [t \in threads |-> ""]
    /\ ticker_symbols = [t \in threads |-> <<>>]
    /\ function_call = [t \in threads |-> None]
    /\ function_result = [t \in threads |-> None]
    /\ reply = [t \in threads |-> None]
    /\ steps = [t \in threads |-> <<>>]
    /\ assistant_at = [t \in threads |-> 0]

Init ==
    /\ Idle(Threads)
    /\ evaluation = NoEvaluation

(***************************************************************************)
(* process_query, one action per step of a thread.  Every read or write of *)
(* the shared transcript is a step of its own; the steps in between are    *)
(* local to the thread.                                                    *)
(***************************************************************************)
Goto(t, label) == pc' = [pc EXCEPT ![t] = label]
Log(t, op, arg) == steps' = [steps EXCEPT ![t] = Append(@, Ev(op, arg))]

\* line 418: process_query(q) is entered and the user turn is appended
Start(t, q) ==
    /\ pc[t] = "idle"
    /\ started < MaxQueries
    /\ started' = started + 1
    /\ conversation_history' = Append(conversation_history, Turn("user", QueryContent(q)))
    /\ Goto(t, "primary_send")
    /\ query' = [query EXCEPT ![t] = q]
    /\ entry_history' = [entry_history EXCEPT ![t] = conversation_history]
    /\ sent' = [sent EXCEPT ![t] = <<>>]
    /\ assistant_response' = [assistant_response EXCEPT ![t] = ""]
    /\ domain' = [domain EXCEPT ![t] = "none"]
    /\ extraction' = [extraction EXCEPT ![t] = None]
    /\ updated_response' = [updated_response EXCEPT ![t] = ""]
    /\ ticker_symbols' = [ticker_symbols EXCEPT ![t] = <<>>]
    /\ function_call' = [function_call EXCEPT ![t] = None]
    /\ function_result' = [function_result EXCEPT ![t] = None]
    /\ reply' = [reply EXCEPT ![t] = None]
    /\ steps' = [steps EXCEPT ![t] = <<>>]
    /\ assistant_at' = [assistant_at EXCEPT ![t] = 0]
    /\ UNCHANGED evaluation

\* the caller serializes: a call starts only when no other call is running
StartSerialized(t, q) ==
    /\ \A u \in DOMAIN pc : pc[u] = "idle"
    /\ Start(t, q)

\* lines 421-428: the primary request is built from the transcript and posted
PrimarySend(t) ==
    /\ pc[t] = "primary_send"
    /\ sent' = [sent EXCEPT ![t] = conversation_history]
    /\ Goto(t, "primary_wait")
    /\ Log(t, "primary_call", "")
    /\ UNCHANGED << assistant_at, evaluation, conversation_history, started, query, entry_history, extraction, updated_response, assistant_response,
                    domain, ticker_symbols, function_call, function_result, reply >>

\* variant: a primary call that failed is followed by the routing all the same
PrimaryReceive_GoesOn(t, out) ==
    /\ pc[t] = "primary_wait"
    /\ Log(t, "primary_reply", out.kind)
    /\ IF out.kind = "choices"
       THEN /\ assistant_response' = [assistant_response EXCEPT ![t] = out.content]
            /\ conversation_history' =
                   Append(conversation_history, Turn("assistant", ModelContent(out.content)))
            /\ assistant_at' = [assistant_at EXCEPT ![t] = Len(conversation_history) + 1]
            /\ Goto(t, "route")
            /\ UNCHANGED reply
       ELSE /\ Goto(t, "route")
            /\ UNCHANGED << reply, assistant_response, conversation_history, assistant_at >>
    /\ UNCHANGED << evaluation, started, query, entry_history, extraction, updated_response, sent, domain, ticker_symbols,
                    function_call, function_result >>

\* lines 428-434 and 490-500: the primary round trip ends
PrimaryReceive(t, out) ==
    /\ pc[t] = "primary_wait"
    /\ Log(t, "primary_reply", out.kind)
    /\ IF out.kind = "choices"
       THEN /\ assistant_response' = [assistant_response EXCEPT ![t] = out.content]
            /\ conversation_history' =
                   Append(conversation_history, Turn("assistant", ModelContent(out.content)))
            /\ assistant_at' = [assistant_at EXCEPT ![t] = Len(conversation_history) + 1]
            /\ Goto(t, "route")
            /\ UNCHANGED reply
       ELSE /\ reply' = [reply EXCEPT ![t] =
                   IF out.kind = "nochoices" THEN LanguageModelError ELSE ParseError]
            /\ Goto(t, "done")
            /\ UNCHANGED << assistant_response, conversation_history, assistant_at >>
    /\ UNCHANGED << evaluation, started, query, entry_history, extraction, updated_response, sent, domain, ticker_symbols,
                    function_call, function_result >>

\* the constructor of function_call, lines 443-446 and the like
FunctionCall(function_name, parameters) ==
    [function |-> function_name, parameters |-> parameters]

\* lines 437-447: the if/elif chain picks its branch; the stock branch is
\* decided at once, the other four go on to their extractor
Route(t) ==
    /\ pc[t] = "route"
    /\ LET d == RouteDomain(query[t])
           tickers == extract_ticker_symbols(query[t])
       IN  /\ domain' = [domain EXCEPT ![t] = d]
           /\ Log(t, "route", d)
           /\ IF d = "stock"
              THEN /\ ticker_symbols' = [ticker_symbols EXCEPT ![t] = tickers]
                   /\ function_call' = [function_call EXCEPT ![t] =
                          IF tickers # <<>>
                          THEN FunctionCall("get_stock_data", [ticker |-> tickers[1]])
                          ELSE None]
                   /\ Goto(t, "parsed")
              ELSE /\ UNCHANGED << ticker_symbols, function_call >>
                   /\ Goto(t, IF d = "none" THEN "parsed" ELSE "extract")
    /\ UNCHANGED << assistant_at, evaluation, conversation_history, started, query, entry_history, extraction, updated_response, sent,
                    assistant_response, function_result, reply >>

\* lines 450-482: the extractor of the entered branch runs its round trip
Extract(t, resp) ==
    /\ pc[t] = "extract"
    /\ Log(t, "extract", domain[t])
    /\ extraction' = [extraction EXCEPT ![t] = resp]
    /\ LET params == Extractor(domain[t], resp)
       IN  function_call' = [function_call EXCEPT ![t] =
               IF params # None
               THEN FunctionCall(FunctionOf(domain[t]), params)
               ELSE None]
    /\ Goto(t, "parsed")
    /\ UNCHANGED << assistant_at, evaluation, conversation_history, started, query, entry_history, updated_response, sent,
                    assistant_response, domain, ticker_symbols, function_result, reply >>

\* lines 768-769 and 821-825: no function call, the primary reply is returned
ReturnPlain(t) ==
    /\ pc[t] = "parsed"
    /\ function_call[t] = None
    /\ reply' = [reply EXCEPT ![t] = PlainReply(query[t], assistant_response[t])]
    /\ Goto(t, "done")
    /\ UNCHANGED << assistant_at, evaluation, conversation_history, started, query, entry_history, extraction, updated_response, sent,
                    assistant_response, domain, ticker_symbols, function_call,
                    function_result, steps >>

\* lines 769-782: the calculator named by function_call runs
Execute(t, provider) ==
    /\ pc[t] = "parsed"
    /\ function_call[t] # None
    /\ function_result' = [function_result EXCEPT ![t] =
           Dispatch(function_call[t].function, function_call[t].parameters, provider)]
    /\ steps' = [steps EXCEPT ![t] =
           @ \o << Ev("calculator", function_call[t].function), Ev("provider", provider) >>]
    /\ Goto(t, "append_result")
    /\ UNCHANGED << assistant_at, evaluation, conversation_history, started, query, entry_history, extraction, updated_response, sent,
                    assistant_response, domain, ticker_symbols, function_call, reply >>

\* lines 785-788: the result is serialized and appended as a system turn;
\* a TypeError of json.dumps leaves process_query
AppendResult(t) ==
    /\ pc[t] = "append_result"
    /\ IF JsonDumpsRaises(function_result[t])
       THEN /\ Goto(t, "raised")
            /\ UNCHANGED << conversation_history, steps >>
       ELSE /\ conversation_history' =
                   Append(conversation_history,
                          Turn("system", ResultContent(function_call[t].function,
                                                       function_result[t])))
            /\ Log(t, "append_result", "")
            /\ Goto(t, "followup_send")
    /\ UNCHANGED << assistant_at, evaluation, started, query, entry_history, extraction, updated_response, sent, assistant_response, domain,
                    ticker_symbols, function_call, function_result, reply >>

\* lines 791-798: the follow-up request is built from the transcript and posted
FollowupSend(t) ==
    /\ pc[t] = "followup_send"
    /\ sent' = [sent EXCEPT ![t] = conversation_history]
    /\ Log(t, "followup_call", "")
    /\ Goto(t, "followup_wait")
    /\ UNCHANGED << assistant_at, evaluation, conversation_history, started, query, entry_history, extraction, updated_response, assistant_response,
                    domain, ticker_symbols, function_call, function_result, reply >>

\* lines 798-825: the follow-up round trip ends.  It is outside any try
\* block, so an exception leaves process_query; without choices control
\* falls through to the return of the primary reply.
FollowupReceive(t, out) ==
    /\ pc[t] = "followup_wait"
    /\ CASE out.kind = "choices" ->
              /\ conversation_history' =
                     UpdateLastAssistant(conversation_history, out.content)
              /\ updated_response' = [updated_response EXCEPT ![t] = out.content]
              /\ reply' = [reply EXCEPT ![t] =
                     FunctionReply(query[t], out.content, function_result[t])]
              /\ steps' = [steps EXCEPT ![t] =
                     @ \o << Ev("followup_reply", out.kind),
                             Ev(IF LastAssistantIndex(conversation_history) # 0
                                THEN "replace_assistant" ELSE "append_assistant", "") >>]
              /\ Goto(t, "done")
         [] out.kind = "nochoices" ->
              /\ reply' = [reply EXCEPT ![t] =
                     PlainReply(query[t], assistant_response[t])]
              /\ Log(t, "followup_reply", out.kind)
              /\ Goto(t, "done")
              /\ UNCHANGED << conversation_history, updated_response >>
         [] out.kind = "raises" ->
              /\ Log(t, "followup_reply", out.kind)
              /\ Goto(t, "raised")
              /\ UNCHANGED << conversation_history, updated_response, reply >>
    /\ UNCHANGED << assistant_at, evaluation, started, query, entry_history, extraction, sent, assistant_response, domain,
                    ticker_symbols, function_call, function_result >>

\* src/app.py line 18: the reply (or the exception) is handed to the server;
\* the locals of the call are gone
Respond(t) ==
    /\ pc[t] \in {"done", "raised"}
    /\ Goto(t, "idle")
    /\ query' = [query EXCEPT ![t] = <<>>]
    /\ entry_history' = [entry_history EXCEPT ![t] = <<>>]
    /\ sent' = [sent EXCEPT ![t] = <<>>]
    /\ assistant_response' = [assistant_response EXCEPT ![t] = ""]
    /\ domain' = [domain EXCEPT ![t] = "none"]
    /\ extraction' = [extraction EXCEPT ![t] = None]
    /\ updated_response' = [updated_response EXCEPT ![t] = ""]
    /\ ticker_symbols' = [ticker_symbols EXCEPT ![t] = <<>>]
    /\ function_call' = [function_call EXCEPT ![t] = None]
    /\ function_result' = [function_result EXCEPT ![t] = None]
    /\ reply' = [reply EXCEPT ![t] = None]
    /\ steps' = [steps EXCEPT ![t] = <<>>]
    /\ assistant_at' = [assistant_at EXCEPT ![t] = 0]
    /\ UNCHANGED << conversation_history, started, evaluation >>

\* variant: the market-data provider is asked whatever the function is
ProvidersFor_Always(t) == ProviderOutcomes

\* lines 773-774: only get_stock_data goes to the market-data provider
ProvidersFor(t) ==
    IF function_call[t] # None /\ function_call[t].function = "get_stock_data"
    THEN ProviderOutcomes
    ELSE {"not_called"}

Next ==
    \/ \E t \in DOMAIN pc, q \in Queries : StartSerialized(t, q)
    \/ \E t \in DOMAIN pc : PrimarySend(t)
    \/ \E t \in DOMAIN pc, out \in ChatOutcomes : PrimaryReceive(t, out)
    \/ \E t \in DOMAIN pc : Route(t)
    \/ \E t \in DOMAIN pc : \E resp \in ExtractionOutcomes(domain[t]) : Extract(t, resp)
    \/ \E t \in DOMAIN pc : ReturnPlain(t)
    \/ \E t \in DOMAIN pc : \E provider \in ProvidersFor(t) : Execute(t, provider)
    \/ \E t \in DOMAIN pc : AppendResult(t)
    \/ \E t \in DOMAIN pc : FollowupSend(t)
    \/ \E t \in DOMAIN pc, out \in ChatOutcomes : FollowupReceive(t, out)
    \/ \E t \in DOMAIN pc : Respond(t)

Spec == Init /\ [][Next]_vars

(***************************************************************************)
(* Vocabulary of the properties.                                           *)
(***************************************************************************)
Calls == DOMAIN pc

\* the step (op, arg) has happened in the current call of thread t
HasEv(t, op, arg) == \E i \in DOMAIN steps[t] : steps[t][i] = Ev(op, arg)
HasOp(t, op) == \E i \in DOMAIN steps[t] : steps[t][i].op = op

\* the call of thread t is over: it returned a reply, or an exception left it
Returned(t) == pc[t] = "done"
Escaped(t) == pc[t] = "raised"

\* the call was left by the TypeError of json.dumps on the calculator result
SerializationFailed(t) ==
    /\ Escaped(t)
    /\ ~HasOp(t, "append_result")

(***************************************************************************)
(* C1.  For every combination of outcomes of the primary, extraction and   *)
(* follow-up LLM calls, process_query returns a reply with a top-level     *)
(* status of success or error, and no exception leaves it.  (Stated for    *)
(* the calls whose calculator result could be serialized, so that a        *)
(* violation is a violation by the outcome of an LLM call.)                *)
(***************************************************************************)
C1_AlwaysReturnsStatus ==
    \A t \in Calls :
        (Returned(t) \/ Escaped(t)) /\ ~SerializationFailed(t)
            => /\ Returned(t)
               /\ reply[t].status \in {"success", "error"}

(***************************************************************************)
(* C2.  Whenever the primary or the follow-up LLM call of a query returns  *)
(* a response with no choices, the query ends with the reply {status:      *)
(* error, message: "Failed to get response from language model"}, never    *)
(* with status success.                                                    *)
(***************************************************************************)
C2_NoChoicesIsError ==
    \A t \in Calls :
        /\ Returned(t)
        /\ HasEv(t, "primary_reply", "nochoices") \/ HasEv(t, "followup_reply", "nochoices")
        => reply[t] = LanguageModelError

(***************************************************************************)
(* C3.  When the primary LLM call succeeds and the selected parameter      *)
(* extractor fails (its call raises, returns no choices, returns malformed *)
(* JSON, or a required field is missing or null), process_query runs no    *)
(* calculator, issues no follow-up LLM call, and returns status success    *)
(* with the primary reply as response and no function_result.              *)
(***************************************************************************)
RequiredFields(d) ==
    CASE d = "loan" -> {"principal", "interest_rate", "years"}
      [] d = "investment" ->
             {"initial_investment", "monthly_contribution", "annual_return", "years"}
      [] d = "budget" -> {"income", "expenses"}
      [] OTHER -> {}

ExtractionFailed(t) ==
    /\ extraction[t] # None
    /\ \/ extraction[t].kind \in {"raises", "nochoices", "malformed"}
       \/ /\ extraction[t].kind = "object"
          /\ \E k \in RequiredFields(domain[t]) :
                 k \notin DOMAIN extraction[t].obj \/ extraction[t].obj[k] = Null

C3_ExtractionFailureFallsBack ==
    \A t \in Calls :
        HasEv(t, "primary_reply", "choices") /\ ExtractionFailed(t)
            => /\ pc[t] \in {"parsed", "done"}
               /\ ~HasOp(t, "calculator")
               /\ ~HasOp(t, "followup_call")
               /\ function_result[t] = None
               /\ Returned(t) =>
                      /\ DOMAIN reply[t] = {"status", "query", "response"}
                      /\ reply[t].status = "success"
                      /\ reply[t].response = assistant_response[t]

\* a call has returned after an extraction object lacked a required field
C3_Witness ==
    \E t \in Calls :
        /\ Returned(t)
        /\ ExtractionFailed(t)
        /\ extraction[t].kind = "object"
        /\ reply[t].status = "success"

(***************************************************************************)
(* C4.  When the dispatched calculator returns an error-status result (for *)
(* example the market-data provider raises inside get_stock_data) and both *)
(* LLM calls return choices, process_query returns top-level status        *)
(* success with that error-status result embedded unchanged as             *)
(* function_result.                                                        *)
(***************************************************************************)
C4_CalculatorErrorEmbedded ==
    \A t \in Calls :
        /\ Returned(t)
        /\ HasEv(t, "primary_reply", "choices")
        /\ HasEv(t, "followup_reply", "choices")
        /\ function_result[t] # None
        /\ function_result[t].status = "error"
        => /\ reply[t].status = "success"
           /\ "function_result" \in DOMAIN reply[t]
           /\ reply[t].function_result = function_result[t]
           /\ HasEv(t, "provider", "raises") =>
                  reply[t].function_result = Error("Failed to retrieve stock data")

\* a call has returned after the provider raised and the follow-up answered
C4_Witness ==
    \E t \in Calls :
        /\ Returned(t)
        /\ HasEv(t, "provider", "raises")
        /\ HasEv(t, "followup_reply", "choices")
        /\ function_result[t].status = "error"

(***************************************************************************)
(* C5.  In a query for which the router produces a function call and both  *)
(* the primary and the follow-up LLM call return choices, the steps are,   *)
(* in order: primary LLM call, calculator execution, append of a system    *)
(* turn holding the calculator result, follow-up LLM call whose messages   *)
(* end with that system turn, in-place replacement of the most recent      *)
(* assistant turn by the narration.  The reply is {status: success,        *)
(* response: narration, function_result: calculator result} and the        *)
(* transcript has gained exactly three turns: user, assistant (holding the *)
(* narration), system.                                                     *)
(***************************************************************************)
OrderedOps ==
    {"primary_call", "calculator", "append_result", "followup_call",
     "replace_assistant", "append_assistant"}

IsOrderedOp(e) == e.op \in OrderedOps

StepOrder(t) ==
    LET sel == SelectSeq(steps[t], IsOrderedOp)
    IN  [i \in DOMAIN sel |-> sel[i].op]

C5_FunctionCallSequence ==
    \A t \in Calls :
        /\ Returned(t)
        /\ function_call[t] # None
        /\ HasEv(t, "primary_reply", "choices")
        /\ HasEv(t, "followup_reply", "choices")
        => LET result_turn ==
                   Turn("system", [kind |-> "function_result",
                                   message |-> <<"Function", function_call[t].function,
                                                 "returned:", function_result[t]>>])
           IN  /\ StepOrder(t) = <<"primary_call", "calculator", "append_result",
                                   "followup_call", "replace_assistant">>
               /\ sent[t] # <<>>
               /\ sent[t][Len(sent[t])] = result_turn
               /\ reply[t] = [status |-> "success", query |-> query[t],
                              response |-> updated_response[t],
                              function_result |-> function_result[t]]
               /\ conversation_history =
                      entry_history[t] \o
                          << Turn("user", QueryContent(query[t])),
                             Turn("assistant", ModelContent(updated_response[t])),
                             result_turn >>

\* a narration different from the primary reply has replaced it, in a call
\* that is not the first of the session
C5_Witness ==
    \E t \in Calls :
        /\ Returned(t)
        /\ HasOp(t, "replace_assistant")
        /\ updated_response[t] # assistant_response[t]
        /\ Len(entry_history[t]) > 1

(***************************************************************************)
(* C6.  Across any sequence of process_query calls on one bot, the         *)
(* transcript is append-only with one exception: its length never          *)
(* decreases, turn 0 is always the system prompt, the role of an existing  *)
(* turn never changes, and the content of an existing turn changes only    *)
(* when it is the most recent assistant turn and a function-result         *)
(* narration overwrites it.                                                *)
(***************************************************************************)
C6_Step ==
    LET h == conversation_history
        h2 == conversation_history'
    IN  /\ Len(h2) >= Len(h)
        /\ h[1] = Turn("system", PromptContent)
        /\ h2[1] = Turn("system", PromptContent)
        /\ \A i \in DOMAIN h :
               /\ h2[i].role = h[i].role
               /\ h2[i].content # h[i].content =>
                      /\ h[i].role = "assistant"
                      /\ \A j \in DOMAIN h : j > i => h[j].role # "assistant"
                      /\ \E t \in Calls :
                             /\ pc[t] = "followup_wait"
                             /\ pc'[t] = "done"
                             /\ function_result[t] # None
                             /\ h2[i].content = ModelContent(updated_response'[t])

C6_AppendOnlyTranscript == [][C6_Step]_vars

\* in a session that already held an earlier assistant turn, the assistant
\* turn of the current call now holds a narration that differs from the
\* primary reply it held before
C6_Witness ==
    \E t \in Calls :
        /\ Returned(t)
        /\ HasOp(t, "replace_assistant")
        /\ \E i \in DOMAIN entry_history[t] : entry_history[t][i].role = "assistant"
        /\ conversation_history[Len(entry_history[t]) + 2].content
               = ModelContent(updated_response[t])
        /\ conversation_history[Len(entry_history[t]) + 2].content
               # ModelContent(assistant_response[t])

(***************************************************************************)
(* C7.  A query that ends in a transport/LLM failure (an LLM call returns  *)
(* no choices or raises) leaves no turn of the failed query behind: after  *)
(* it the transcript equals what it was before that query.                 *)
(***************************************************************************)
LlmFailure(t) ==
    \E k \in {"nochoices", "raises"} :
        HasEv(t, "primary_reply", k) \/ HasEv(t, "followup_reply", k)

C7_FailureLeavesTranscript ==
    \A t \in Calls :
        (Returned(t) \/ Escaped(t)) /\ LlmFailure(t)
            => conversation_history = entry_history[t]

(***************************************************************************)
(* C8.  The router tests the keyword sets in the fixed order stock, loan,  *)
(* investment, retirement, budget against the lowercased query and only    *)
(* the first matching domain fires: at most one parameter extractor is     *)
(* invoked per query, a higher-priority match wins over a lower-priority   *)
(* one, and if the first matching domain's extractor returns no parameters *)
(* no other domain is tried and no function call is produced.              *)
(***************************************************************************)
DomainOrder == <<"stock", "loan", "investment", "retirement", "budget">>

KeywordsOf(d) ==
    CASE d = "stock" -> StockKeywords
      [] d = "loan" -> LoanKeywords
      [] d = "investment" -> InvestmentKeywords
      [] d = "retirement" -> RetirementKeywords
      [] d = "budget" -> BudgetKeywords

MatchingRanks(q) ==
    {i \in DOMAIN DomainOrder : AnyKeyword(q, KeywordsOf(DomainOrder[i]))}

FirstMatch(q) ==
    IF MatchingRanks(q) = {} THEN "none"
    ELSE DomainOrder[CHOOSE i \in MatchingRanks(q) : \A j \in MatchingRanks(q) : i <= j]

\* the expected domain of every query of the model, as (query, domain) pairs
FirstMatchPairs == {<<q, FirstMatch(q)>> : q \in Queries}

\* the queries of the model that match two keyword sets or more
MultiMatchPairs == {<<q, Cardinality(MatchingRanks(q)) >= 2>> : q \in Queries}

MatchesSeveral(q) == <<q, TRUE>> \in MultiMatchPairs

ExtractSteps(t) == {i \in DOMAIN steps[t] : steps[t][i].op = "extract"}

C8_FirstMatchOnly ==
    \A t \in Calls :
        HasOp(t, "route")
            => /\ <<query[t], domain[t]>> \in FirstMatchPairs
               /\ Cardinality(ExtractSteps(t)) <= 1
               /\ \A i \in ExtractSteps(t) :
                      /\ <<query[t], steps[t][i].arg>> \in FirstMatchPairs
                      /\ steps[t][i].arg # "stock"
               /\ function_call[t] # None =>
                      \E d \in Range(DomainOrder) :
                          /\ <<query[t], d>> \in FirstMatchPairs
                          /\ function_call[t].function = FunctionOf(d)
               /\ ExtractionFailed(t) => function_call[t] = None

\* "invest loan" matched two keyword sets, the loan extractor alone was
\* invoked, it returned no parameters, and the call produced no function call
C8_Witness ==
    \E t \in Calls :
        /\ Returned(t)
        /\ MatchesSeveral(query[t])
        /\ HasEv(t, "extract", "loan")
        /\ ExtractionFailed(t)
        /\ function_call[t] = None

(***************************************************************************)
(* C9.  When a query matches a stock keyword but ticker extraction yields  *)
(* an empty candidate list, the router's outcome is "none": no function    *)
(* call is produced and no loan, investment, retirement or budget          *)
(* extractor is invoked, even if the query holds keywords of those         *)
(* domains.                                                                *)
(***************************************************************************)
StockWithoutTickerPairs ==
    {<<q, AnyKeyword(q, StockKeywords) /\ extract_ticker_symbols(q) = <<>> >> :
        q \in Queries}

StockWithoutTicker(q) == <<q, TRUE>> \in StockWithoutTickerPairs

C9_StockWithoutTickerIsNone ==
    \A t \in Calls :
        /\ HasOp(t, "route")
        /\ StockWithoutTicker(query[t])
        => /\ function_call[t] = None
           /\ ExtractSteps(t) = {}
           /\ ~HasOp(t, "calculator")
           /\ pc[t] \in {"parsed", "done"}
           /\ Returned(t) => reply[t] = PlainReply(query[t], assistant_response[t])

\* "ticker mortgage": a stock keyword, no ticker, and a loan keyword as well
C9_Witness ==
    \E t \in Calls :
        /\ Returned(t)
        /\ StockWithoutTicker(query[t])
        /\ MatchesSeveral(query[t])
        /\ ticker_symbols[t] = <<>>
        /\ reply[t].status = "success"

(***************************************************************************)
(* C10.  Ticker extraction returns, in order of appearance, exactly those  *)
(* whitespace-separated tokens of the query which, after stripping         *)
(* non-alphanumeric characters, are purely alphabetic, uppercase as        *)
(* written in the query, and at most 5 characters long (so "What", "is",   *)
(* "the" are excluded), and the ticker passed to the stock lookup is the   *)
(* first such candidate.                                                   *)
(***************************************************************************)
IsUppercaseAsWritten(word) ==
    /\ Len(word) > 0
    /\ \A i \in DOMAIN word : IsUpperChar(word[i])
    /\ Len(word) <= 5

RECURSIVE CandidatesAsWritten(_, _)
CandidatesAsWritten(words, i) ==
    IF i > Len(words) THEN <<>>
    ELSE LET word == SelectSeq(words[i], IsAlnumChar)
         IN  (IF IsUppercaseAsWritten(word) THEN <<word>> ELSE <<>>)
                 \o CandidatesAsWritten(words, i + 1)

TickersAsWritten(q) == CandidatesAsWritten(StrSplit(q), 1)

TickersAsWrittenPairs == {<<q, TickersAsWritten(q)>> : q \in Queries}

C10_TickersUppercaseAsWritten ==
    \A t \in Calls :
        HasEv(t, "route", "stock")
            => /\ <<query[t], ticker_symbols[t]>> \in TickersAsWrittenPairs
               /\ function_call[t] # None =>
                      function_call[t].parameters.ticker = ticker_symbols[t][1]

(***************************************************************************)
(* The extractors and calculators on their own.  One evaluation takes an   *)
(* input, applies the function once and keeps the result; a calculator     *)
(* with a loop over the months takes one step per pass, its loop variables *)
(* kept in loop.  process_query is not running.                            *)
(***************************************************************************)
Evaluation(function_name, input) ==
    [function |-> function_name, input |-> input, loop |-> None, output |-> None,
     done |-> FALSE]

\* every JSON object over the given fields: a field is absent or has one of
\* the given values
ObjectsOver(fields, values) ==
    UNION {[present -> values] : present \in SUBSET fields}

\* what the extraction round trip can give an extractor
OutcomesOver(objects) ==
    {[kind |-> "raises"], [kind |-> "nochoices"], [kind |-> "malformed"]}
        \cup {[kind |-> "object", obj |-> o] : o \in objects}

LoanFields == {"principal", "interest_rate", "years"}

LoanExtractionInputs ==
    OutcomesOver(ObjectsOver(LoanFields, {Null, Num(0), Num(5)}))

EvaluateLoanExtractor ==
    /\ evaluation.function = "extract_loan_parameters"
    /\ ~evaluation.done
    /\ evaluation' = [evaluation EXCEPT
           !.output = extract_loan_parameters(evaluation.input),
           !.done = TRUE]
    /\ UNCHANGED pipeline_vars

Evaluated(function_name) ==
    evaluation.function = function_name /\ evaluation.done

\* the field is in the object and its value is not null
PresentNonNull(obj, field) == field \in DOMAIN obj /\ obj[field] # Null

(***************************************************************************)
(* C11: the loan extractor returns a parameter set if and only if the      *)
(* parsed object has principal, interest_rate and years all present and    *)
(* non-null; every non-null number, an interest_rate of 0 included, is     *)
(* accepted, and in every other case the extractor returns None.           *)
(***************************************************************************)
C11_LoanParametersIffAllPresent ==
    Evaluated("extract_loan_parameters") =>
        LET resp == evaluation.input
            complete == /\ resp.kind = "object"
                        /\ \A f \in LoanFields : PresentNonNull(resp.obj, f)
        IN  /\ complete =>
                /\ evaluation.output # None
                /\ \A f \in LoanFields : evaluation.output[f] = resp.obj[f].v
            /\ ~complete => evaluation.output = None

RetirementExtractionInputs ==
    OutcomesOver(ObjectsOver(RetirementFields, {Null, Num(40)}))

EvaluateRetirementExtractor ==
    /\ evaluation.function = "extract_retirement_parameters"
    /\ ~evaluation.done
    /\ evaluation' = [evaluation EXCEPT
           !.output = extract_retirement_parameters(evaluation.input),
           !.done = TRUE]
    /\ UNCHANGED pipeline_vars

\* the value the claim expects for a field: the object's when it is present
\* and not null, the default otherwise (inflation_rate in tenths of a percent)
DefaultedField(obj, field) ==
    IF field = "inflation_rate"
    THEN IF PresentNonNull(obj, field) THEN 10 * obj[field].v
         ELSE RetirementDefaults.inflation_rate_tenths
    ELSE IF PresentNonNull(obj, field) THEN obj[field].v
         ELSE RetirementDefaults[field]

OutputField(field) ==
    IF field = "inflation_rate" THEN "inflation_rate_tenths" ELSE field

(***************************************************************************)
(* C12: for every JSON object the extraction call returns, the retirement  *)
(* extractor returns all eight parameters and never None; a field that is  *)
(* absent or null has its default (30, 65, 90, 50000, 2.5, 0, 500, 7).     *)
(***************************************************************************)
C12_RetirementAlwaysDefaulted ==
    (Evaluated("extract_retirement_parameters") /\ evaluation.input.kind = "object") =>
        /\ evaluation.output # None
        /\ \A f \in RetirementFields :
               evaluation.output[OutputField(f)] = DefaultedField(evaluation.input.obj, f)

BudgetFields == {"income", "expenses"}

ExpenseMapping == [housing |-> 1500, dining |-> 200]

BudgetExtractionInputs ==
    OutcomesOver(ObjectsOver(BudgetFields,
        {Null, Num(0), Num(5000), Obj(<<>>), Obj(ExpenseMapping)}))

EvaluateBudgetExtractor ==
    /\ evaluation.function = "extract_budget_parameters"
    /\ ~evaluation.done
    /\ evaluation' = [evaluation EXCEPT
           !.output = extract_budget_parameters(evaluation.input),
           !.done = TRUE]
    /\ UNCHANGED pipeline_vars

(***************************************************************************)
(* C13: the budget extractor returns a parameter set if and only if the    *)
(* parsed object has an income value (a number) and an expenses mapping    *)
(* that is not empty; in every other case it returns None, so that         *)
(* analyze_budget is not called.                                           *)
(***************************************************************************)
C13_BudgetParametersIffIncomeAndMapping ==
    Evaluated("extract_budget_parameters") =>
        LET resp == evaluation.input
            valid == /\ resp.kind = "object"
                     /\ PresentNonNull(resp.obj, "income")
                     /\ resp.obj["income"].t = "num"
                     /\ PresentNonNull(resp.obj, "expenses")
                     /\ resp.obj["expenses"].t = "obj"
                     /\ DOMAIN resp.obj["expenses"].v # {}
        IN  (evaluation.output # None) <=> valid

(***************************************************************************)
(* The arithmetic of the calculators.  Python computes in doubles; the     *)
(* inputs evaluated here are whole numbers for which every quotient of the *)
(* computation is a whole number too (ExactDiv has no value otherwise), and *)
(* on those the double arithmetic is exact.  A rate of 1200 percent a year *)
(* is a monthly_rate of 1.                                                 *)
(***************************************************************************)
ExactDiv(a, b) == CHOOSE q \in {a \div b} : q * b = a

RECURSIVE Pow(_, _)
Pow(b, e) == IF e = 0 THEN 1 ELSE b * Pow(b, e - 1)

Min(a, b) == IF a <= b THEN a ELSE b

MonthsPerYear == 12
PercentPerYear == 1200
ScheduleCap == 10

\* lines 125-128
LoanMonthlyPayment(principal, monthly_rate, n_payments) ==
    IF monthly_rate = 0
    THEN ExactDiv(principal, n_payments)
    ELSE ExactDiv(principal * (monthly_rate * Pow(1 + monthly_rate, n_payments)),
                  Pow(1 + monthly_rate, n_payments) - 1)

\* lines 117-136: up to the loop.  The loop variables are i, the payment
\* about to be made, balance and schedule.
LoanEnter(principal, interest_rate, years) ==
    LET monthly_rate == ExactDiv(interest_rate, PercentPerYear)
        n_payments == years * MonthsPerYear
    IN  [i |-> 1, balance |-> principal, schedule |-> <<>>,
         principal |-> principal, monthly_rate |-> monthly_rate,
         n_payments |-> n_payments,
         monthly_payment |-> LoanMonthlyPayment(principal, monthly_rate, n_payments)]

\* variant: the whole payment goes to the principal
LoanIterate_WholePaymentToPrincipal(loop) ==
    LET interest_payment == loop.balance * loop.monthly_rate
        principal_payment == loop.monthly_payment
        balance == loop.balance - principal_payment
        entry == [payment_number |-> loop.i,
                  payment_amount |-> loop.monthly_payment,
                  principal_paid |-> principal_payment,
                  interest_paid |-> interest_payment,
                  remaining_balance |-> IF balance > 0 THEN balance ELSE 0]
    IN  [loop EXCEPT
            !.i = loop.i + 1,
            !.balance = balance,
            !.schedule =
                IF \/ loop.i <= MonthsPerYear
                   \/ loop.i % MonthsPerYear = 0
                   \/ loop.i = loop.n_payments
                THEN Append(loop.schedule, entry)
                ELSE loop.schedule]

\* lines 138-151: one pass of the loop
LoanIterate(loop) ==
    LET interest_payment == loop.balance * loop.monthly_rate
        principal_payment == loop.monthly_payment - interest_payment
        balance == loop.balance - principal_payment
        entry == [payment_number |-> loop.i,
                  payment_amount |-> loop.monthly_payment,
                  principal_paid |-> principal_payment,
                  interest_paid |-> interest_payment,
                  remaining_balance |-> IF balance > 0 THEN balance ELSE 0]
    IN  [loop EXCEPT
            !.i = loop.i + 1,
            !.balance = balance,
            !.schedule =
                IF \/ loop.i <= MonthsPerYear
                   \/ loop.i % MonthsPerYear = 0
                   \/ loop.i = loop.n_payments
                THEN Append(loop.schedule, entry)
                ELSE loop.schedule]

\* variant: the cap keeps the last entries of the schedule
LoanReturn_LastEntries(loop) ==
    LET total_cost == loop.monthly_payment * loop.n_payments
        kept == Min(ScheduleCap, Len(loop.schedule))
    IN  Success([monthly_payment |-> loop.monthly_payment,
                 total_payments |-> loop.n_payments,
                 total_cost |-> total_cost,
                 total_interest |-> total_cost - loop.principal,
                 interest_rate_monthly |-> loop.monthly_rate,
                 schedule |-> SubSeq(loop.schedule, Len(loop.schedule) - kept + 1,
                                     Len(loop.schedule))])

\* lines 131-132 and 153-163
LoanReturn(loop) ==
    LET total_cost == loop.monthly_payment * loop.n_payments
    IN  Success([monthly_payment |-> loop.monthly_payment,
                 total_payments |-> loop.n_payments,
                 total_cost |-> total_cost,
                 total_interest |-> total_cost - loop.principal,
                 interest_rate_monthly |-> loop.monthly_rate,
                 schedule |-> SubSeq(loop.schedule, 1,
                                     Min(ScheduleCap, Len(loop.schedule)))])

MaxLoanYears == 3

\* loans without interest over 0..MaxLoanYears years, and one-year loans at a
\* monthly_rate of 1
LoanInputs ==
    {[principal |-> p, interest_rate |-> 0, years |-> y] :
         p \in {7200, 72000}, y \in 0..MaxLoanYears}
      \cup {[principal |-> p, interest_rate |-> PercentPerYear, years |-> y] :
                p \in {4095, 40950}, y \in {0, 1}}

Evaluating(function_name) ==
    evaluation.function = function_name /\ ~evaluation.done

\* calculate_loan_payment is entered: the payment formula divides by zero,
\* which ends the call with the error result, or the loop begins
LoanPaymentEnter ==
    /\ Evaluating("calculate_loan_payment")
    /\ evaluation.loop = None
    /\ LET p == evaluation.input
           result == calculate_loan_payment(p.principal, p.interest_rate, p.years)
       IN  evaluation' =
               IF result.status # "success"
               THEN [evaluation EXCEPT !.output = result, !.done = TRUE]
               ELSE [evaluation EXCEPT
                        !.loop = LoanEnter(p.principal, p.interest_rate, p.years)]
    /\ UNCHANGED pipeline_vars

LoanPaymentIterate ==
    /\ Evaluating("calculate_loan_payment")
    /\ evaluation.loop # None
    /\ evaluation.loop.i <= evaluation.loop.n_payments
    /\ evaluation' = [evaluation EXCEPT !.loop = LoanIterate(evaluation.loop)]
    /\ UNCHANGED pipeline_vars

LoanPaymentReturn ==
    /\ Evaluating("calculate_loan_payment")
    /\ evaluation.loop # None
    /\ evaluation.loop.i > evaluation.loop.n_payments
    /\ evaluation' = [evaluation EXCEPT
           !.output = LoanReturn(evaluation.loop), !.done = TRUE]
    /\ UNCHANGED pipeline_vars

(***************************************************************************)
(* C14: for every loan with principal > 0, rate >= 0 and years >= 1 the    *)
(* last entry of the returned schedule is the final payment                *)
(* (payment_number = total_payments) with a remaining_balance of zero, and *)
(* no returned entry has a negative remaining_balance.                     *)
(***************************************************************************)
C14_ScheduleEndsWithFinalPayment ==
    (/\ Evaluated("calculate_loan_payment")
     /\ evaluation.input.principal > 0
     /\ evaluation.input.interest_rate >= 0
     /\ evaluation.input.years >= 1) =>
        LET data == evaluation.output.data
            schedule == data.schedule
        IN  /\ evaluation.output.status = "success"
            /\ schedule # <<>>
            /\ schedule[Len(schedule)].payment_number = data.total_payments
            /\ schedule[Len(schedule)].remaining_balance = 0
            /\ \A i \in DOMAIN schedule : schedule[i].remaining_balance >= 0

(***************************************************************************)
(* Double precision.  Where a quotient is not a whole number Python rounds *)
(* it to the nearest double, ties to even.  A double here is its sign, the *)
(* exponent of its leading bit and the 52 bits after the leading bit in    *)
(* four limbs of 13 bits: sign * 2^exponent * (1 + limbs / 2^52).  The     *)
(* operations are the ones lines 126 and 131-132 apply to a loan without   *)
(* interest: whole number / whole number, double * whole number, and the   *)
(* difference of two doubles that are equal or neighbours.                 *)
(***************************************************************************)
LimbBase == 8192

DoubleZero == [sign |-> 0, exponent |-> 0, limbs |-> <<0, 0, 0, 0>>]

\* the k with 2^k <= a / b < 2^(k+1), for positive whole numbers a and b
RECURSIVE BinaryExponent(_, _)
BinaryExponent(a, b) ==
    IF a >= 2 * b THEN BinaryExponent(a, 2 * b) + 1
    ELSE IF a < b THEN BinaryExponent(2 * a, b) - 1
    ELSE 0

\* the next double away from zero
DoubleSucc(d) ==
    LET l == d.limbs
    IN  IF l[4] + 1 < LimbBase THEN [d EXCEPT !.limbs = <<l[1], l[2], l[3], l[4] + 1>>]
        ELSE IF l[3] + 1 < LimbBase THEN [d EXCEPT !.limbs = <<l[1], l[2], l[3] + 1, 0>>]
        ELSE IF l[2] + 1 < LimbBase THEN [d EXCEPT !.limbs = <<l[1], l[2] + 1, 0, 0>>]
        ELSE IF l[1] + 1 < LimbBase THEN [d EXCEPT !.limbs = <<l[1] + 1, 0, 0, 0>>]
        ELSE [d EXCEPT !.exponent = d.exponent + 1, !.limbs = <<0, 0, 0, 0>>]

\* round to nearest, ties to even: d holds the bits that fit, and
\* twice_dropped / (2 * unit) is the fraction of its last bit that does not
Rounded(d, twice_dropped, unit) ==
    IF twice_dropped > unit \/ (twice_dropped = unit /\ d.limbs[4] % 2 = 1)
    THEN DoubleSucc(d)
    ELSE d

\* a / b in double precision, for positive whole numbers a and b: long
\* division, one limb at a time
DoubleDiv(a, b) ==
    LET k == BinaryExponent(a, b)
        dividend == IF k >= 0 THEN a ELSE a * Pow(2, -k)
        divisor == IF k >= 0 THEN b * Pow(2, k) ELSE b
        r0 == dividend - divisor
        l1 == (r0 * LimbBase) \div divisor
        r1 == (r0 * LimbBase) % divisor
        l2 == (r1 * LimbBase) \div divisor
        r2 == (r1 * LimbBase) % divisor
        l3 == (r2 * LimbBase) \div divisor
        r3 == (r2 * LimbBase) % divisor
        l4 == (r3 * LimbBase) \div divisor
        r4 == (r3 * LimbBase) % divisor
    IN  Rounded([sign |-> 1, exponent |-> k, limbs |-> <<l1, l2, l3, l4>>],
                2 * r4, divisor)

\* float(a) of a positive whole number a below 2^18: exact
DoubleOfInt(a) == DoubleDiv(a, 1)

\* d * b in double precision, for a positive double d and a positive whole
\* number b below 2^10: the product limb by limb, then the 53 leading bits
DoubleTimesInt(d, b) ==
    LET c4 == d.limbs[4] * b
        c3 == d.limbs[3] * b + c4 \div LimbBase
        c2 == d.limbs[2] * b + c3 \div LimbBase
        c1 == d.limbs[1] * b + c2 \div LimbBase
        top == b + c1 \div LimbBase
        o1 == c1 % LimbBase
        o2 == c2 % LimbBase
        o3 == c3 % LimbBase
        o4 == c4 % LimbBase
        shift == BinaryExponent(top, 1)
        unit == Pow(2, shift)
        up == LimbBase \div unit
        kept == [sign |-> 1, exponent |-> d.exponent + shift,
                 limbs |-> << (top % unit) * up + o1 \div unit,
                              (o1 % unit) * up + o2 \div unit,
                              (o2 % unit) * up + o3 \div unit,
                              (o3 % unit) * up + o4 \div unit >>]
    IN  Rounded(kept, 2 * (o4 % unit), unit)

\* the gap between d and the next double: 2^(exponent - 52)
Ulp(d) == [sign |-> 1, exponent |-> d.exponent - 52, limbs |-> <<0, 0, 0, 0>>]

\* d1 - d2 for positive doubles that are equal or neighbours, where the
\* difference is exact; it has no value for other operands
DoubleMinus(d1, d2) ==
    CASE d1 = d2 -> DoubleZero
      [] d1 = DoubleSucc(d2) -> Ulp(d2)
      [] d2 = DoubleSucc(d1) -> [Ulp(d1) EXCEPT !.sign = -1]

\* lines 119-132 of calculate_loan_payment for a loan without interest:
\* monthly_rate is 0.0, so the payment is principal / n_payments
LoanTotals(principal, years) ==
    LET n_payments == years * MonthsPerYear
        monthly_payment == DoubleDiv(principal, n_payments)
        total_cost == DoubleTimesInt(monthly_payment, n_payments)
    IN  [monthly_payment |-> monthly_payment,
         total_payments |-> n_payments,
         total_cost |-> total_cost,
         total_interest |-> DoubleMinus(total_cost, DoubleOfInt(principal))]

MaxTotalsYears == 10

\* loans without interest over 1..MaxTotalsYears years whose payment is not
\* always a whole number
LoanTotalsInputs ==
    {[principal |-> p, interest_rate |-> 0, years |-> y] :
         p \in {1000, 7200, 250000}, y \in 1..MaxTotalsYears}

\* the payment and the totals of calculate_loan_payment in double precision
EvaluateLoanTotals ==
    /\ Evaluating("calculate_loan_payment: totals")
    /\ evaluation' = [evaluation EXCEPT
           !.output = Success(LoanTotals(evaluation.input.principal,
                                         evaluation.input.years)),
           !.done = TRUE]
    /\ UNCHANGED pipeline_vars

\* lines 335-337
NeedsCategories ==
    {"housing", "utilities", "groceries", "healthcare", "insurance", "transportation"}
WantsCategories ==
    {"entertainment", "dining", "shopping", "hobbies", "subscriptions", "travel"}
SavingsCategories == {"savings", "investments", "debt_payment"}

ExceedIncome ==
    "Your expenses exceed your income. Consider reducing expenses or increasing income."
EssentialsHigh ==
    "Your essential expenses are higher than recommended. Consider finding ways to reduce housing, transportation, or other necessary costs."
DiscretionaryHigh ==
    "Your discretionary spending is higher than recommended. Consider cutting back on entertainment, dining out, or other non-essential expenses."
SavingLow ==
    "You're saving less than recommended. Aim to increase your savings rate to at least 20% of your income."

\* x / income * 100 compared with a whole percentage, for income > 0; the
\* percentage is 0 when income is not positive (lines 344-346)
PercentOver(amount, income, percent) ==
    IF income > 0 THEN amount * 100 > percent * income ELSE 0 > percent
PercentUnder(amount, income, percent) ==
    IF income > 0 THEN amount * 100 < percent * income ELSE 0 < percent

\* variant: the first suggestion is also given when the budget breaks even
BudgetSuggestions_AtBreakEven(income, expenses) ==
    LET total_expenses == SumOver(expenses, DOMAIN expenses)
        savings == income - total_expenses
        needs_total == SumOver(expenses, DOMAIN expenses \cap NeedsCategories)
        wants_total == SumOver(expenses, DOMAIN expenses \cap WantsCategories)
        savings_debt_total ==
            SumOver(expenses, DOMAIN expenses \cap SavingsCategories) + savings
    IN  (IF savings <= 0 THEN <<ExceedIncome>> ELSE <<>>)
          \o (IF PercentOver(needs_total, income, 50) THEN <<EssentialsHigh>> ELSE <<>>)
          \o (IF PercentOver(wants_total, income, 30) THEN <<DiscretionaryHigh>> ELSE <<>>)
          \o (IF PercentUnder(savings_debt_total, income, 20) THEN <<SavingLow>> ELSE <<>>)

\* lines 323-380: the list of suggestions for a mapping of amounts
BudgetSuggestions(income, expenses) ==
    LET total_expenses == SumOver(expenses, DOMAIN expenses)
        savings == income - total_expenses
        needs_total == SumOver(expenses, DOMAIN expenses \cap NeedsCategories)
        wants_total == SumOver(expenses, DOMAIN expenses \cap WantsCategories)
        savings_debt_total ==
            SumOver(expenses, DOMAIN expenses \cap SavingsCategories) + savings
    IN  (IF savings < 0 THEN <<ExceedIncome>> ELSE <<>>)
          \o (IF PercentOver(needs_total, income, 50) THEN <<EssentialsHigh>> ELSE <<>>)
          \o (IF PercentOver(wants_total, income, 30) THEN <<DiscretionaryHigh>> ELSE <<>>)
          \o (IF PercentUnder(savings_debt_total, income, 20) THEN <<SavingLow>> ELSE <<>>)

\* (amount / income) * 100 if income > 0 else 0 (lines 327, 330, 344-346); a
\* whole number for the budgets evaluated here
Percentage(amount, income) ==
    IF income > 0 THEN ExactDiv(amount * 100, income) ELSE 0

\* lines 349-365
RuleAssessment(actual, recommended) ==
    [actual |-> actual, recommended |-> recommended,
     difference |-> actual - recommended]

\* the place of a category in the order of the mapping's items
Position(keys, category) == CHOOSE i \in DOMAIN keys : keys[i] = category

\* variant: among equal amounts the category that comes later in the mapping
\* is first
SortedExpenses_TiesReversed(expenses, keys) ==
    LET Ahead(c) ==
            {d \in Range(keys) :
                \/ expenses[d] > expenses[c]
                \/ expenses[d] = expenses[c] /\ Position(keys, d) > Position(keys, c)}
    IN  [r \in 1..Len(keys) |->
            LET c == CHOOSE c \in Range(keys) : Cardinality(Ahead(c)) = r - 1
            IN  <<c, expenses[c]>>]

\* line 383: sorted(expenses_dict.items(), key=amount, reverse=True).  The
\* sort is stable, with reverse too: an item comes after the items with a
\* larger amount and after the items with the same amount that precede it
\* in the mapping
SortedExpenses(expenses, keys) ==
    LET Ahead(c) ==
            {d \in Range(keys) :
                \/ expenses[d] > expenses[c]
                \/ expenses[d] = expenses[c] /\ Position(keys, d) < Position(keys, c)}
    IN  [r \in 1..Len(keys) |->
            LET c == CHOOSE c \in Range(keys) : Cardinality(Ahead(c)) = r - 1
            IN  <<c, expenses[c]>>]

\* variant: only the categories of the three lists get a percentage
budget_analysis_ListedCategoriesOnly(income, expenses_dict, keys) ==
    LET result == analyze_budget(income, expenses_dict)
        expenses == expenses_dict.v
        savings == result.data.savings
        needs_total == SumOver(expenses, DOMAIN expenses \cap NeedsCategories)
        wants_total == SumOver(expenses, DOMAIN expenses \cap WantsCategories)
        savings_debt_total ==
            SumOver(expenses, DOMAIN expenses \cap SavingsCategories) + savings
        sorted_expenses == SortedExpenses(expenses, keys)
    IN  IF result.status # "success" THEN result
        ELSE Success([income |-> result.data.income,
                      total_expenses |-> result.data.total_expenses,
                      savings |-> savings,
                      savings_rate |-> Percentage(savings, income),
                      category_percentages |->
                          [c \in DOMAIN expenses
                                 \cap (NeedsCategories \cup WantsCategories
                                          \cup SavingsCategories) |->
                              Percentage(expenses[c], income)],
                      rule_assessment |->
                          [needs |-> RuleAssessment(Percentage(needs_total, income), 50),
                           wants |-> RuleAssessment(Percentage(wants_total, income), 30),
                           savings_debt |->
                               RuleAssessment(Percentage(savings_debt_total, income), 20)],
                      top_expenses |-> SubSeq(sorted_expenses, 1,
                                              Min(3, Len(sorted_expenses))),
                      suggestions |-> BudgetSuggestions(income, expenses)])

\* lines 321-404 with the data of a success in full; keys is the order of
\* the items of expenses_dict
budget_analysis(income, expenses_dict, keys) ==
    LET result == analyze_budget(income, expenses_dict)
        expenses == expenses_dict.v
        savings == result.data.savings
        needs_total == SumOver(expenses, DOMAIN expenses \cap NeedsCategories)
        wants_total == SumOver(expenses, DOMAIN expenses \cap WantsCategories)
        savings_debt_total ==
            SumOver(expenses, DOMAIN expenses \cap SavingsCategories) + savings
        sorted_expenses == SortedExpenses(expenses, keys)
    IN  IF result.status # "success" THEN result
        ELSE Success([income |-> result.data.income,
                      total_expenses |-> result.data.total_expenses,
                      savings |-> savings,
                      savings_rate |-> Percentage(savings, income),
                      category_percentages |->
                          [c \in DOMAIN expenses |-> Percentage(expenses[c], income)],
                      rule_assessment |->
                          [needs |-> RuleAssessment(Percentage(needs_total, income), 50),
                           wants |-> RuleAssessment(Percentage(wants_total, income), 30),
                           savings_debt |->
                               RuleAssessment(Percentage(savings_debt_total, income), 20)],
                      top_expenses |-> SubSeq(sorted_expenses, 1,
                                              Min(3, Len(sorted_expenses))),
                      suggestions |-> BudgetSuggestions(income, expenses)])

\* the orders in which the items of a mapping can come
Orders(keys) ==
    {o \in [1..Cardinality(keys) -> keys] : \A i, j \in DOMAIN o : o[i] = o[j] => i = j}

\* incomes of 0, 2000 and 5000 with every mapping of four categories to 500
\* or 1500 in every order of its items, and an expenses_dict that is a
\* number.  "Housing" is not "housing": it is in none of the three lists.
BudgetInputs ==
    {[income |-> i, expenses_dict |-> Num(1500), keys |-> <<>>] : i \in {0, 2000, 5000}}
      \cup UNION {{[income |-> i, expenses_dict |-> Obj(m), keys |-> o] :
                       i \in {0, 2000, 5000}, o \in Orders(DOMAIN m)} :
                  m \in ObjectsOver({"housing", "Housing", "dining", "savings"},
                                    {500, 1500})}

EvaluateBudget ==
    /\ evaluation.function = "analyze_budget"
    /\ ~evaluation.done
    /\ evaluation' = [evaluation EXCEPT
           !.output = budget_analysis(evaluation.input.income,
                                      evaluation.input.expenses_dict,
                                      evaluation.input.keys),
           !.done = TRUE]
    /\ UNCHANGED pipeline_vars

\* income minus the sum of all category amounts of the evaluated budget
InputSavings ==
    evaluation.input.income
        - SumOver(evaluation.input.expenses_dict.v, DOMAIN evaluation.input.expenses_dict.v)

(***************************************************************************)
(* C15: for every income and expense mapping, analyze_budget lists the     *)
(* suggestion "Your expenses exceed your income..." if and only if savings, *)
(* income minus the sum of all category amounts, is below zero.            *)
(***************************************************************************)
C15_ExceedSuggestionIffNegativeSavings ==
    (Evaluated("analyze_budget") /\ evaluation.input.expenses_dict.t = "obj") =>
        /\ evaluation.output.status = "success"
        /\ evaluation.output.data.savings = InputSavings
        /\ (ExceedIncome \in Range(evaluation.output.data.suggestions))
               <=> InputSavings < 0

\* an overspent budget was analysed and got the suggestion, and it was not
\* the only suggestion
C15_Witness ==
    /\ Evaluated("analyze_budget")
    /\ evaluation.input.expenses_dict.t = "obj"
    /\ InputSavings < 0
    /\ evaluation.input.income > 0
    /\ evaluation.output.data.suggestions[1] = ExceedIncome
    /\ Len(evaluation.output.data.suggestions) > 1

\* the fields of a retirement result that are sums and powers can be carried
\* when the monthly rate and the yearly inflation factor are whole numbers and
\* retirement is at most a year away
RetirementIsExact(p) ==
    /\ p.expected_return % PercentPerYear = 0
    /\ p.inflation_rate_tenths % 1000 = 0
    /\ p.retirement_age - p.current_age \in {0, 1}

\* variant: the difference is reported with its sign
RetirementOutcome_Signed(corpus, total, monthly_contribution, monthly_rate, growth) ==
    LET shortfall == corpus - total
    IN  [shortfall_or_surplus |-> shortfall,
         is_surplus |-> shortfall < 0,
         required_monthly_contribution |->
             IF shortfall > 0
             THEN [contribution |-> monthly_contribution,
                   extra |-> <<shortfall * monthly_rate, growth - 1>>]
             ELSE [contribution |-> monthly_contribution, extra |-> <<0, 1>>]]

\* lines 280-300.  required_monthly_contribution is monthly_contribution plus
\* a quotient, kept as <<numerator, denominator>>; growth is
\* (1 + monthly_rate) ** n_months, above 1 where this is evaluated
RetirementOutcome(corpus, total, monthly_contribution, monthly_rate, growth) ==
    LET shortfall == corpus - total
    IN  [shortfall_or_surplus |-> IF shortfall < 0 THEN -shortfall ELSE shortfall,
         is_surplus |-> shortfall < 0,
         required_monthly_contribution |->
             IF shortfall > 0
             THEN [contribution |-> monthly_contribution,
                   extra |-> <<shortfall * monthly_rate, growth - 1>>]
             ELSE [contribution |-> monthly_contribution, extra |-> <<0, 1>>]]

\* lines 254-308 with the data of a success in full where it is exact
retirement_needs(p) ==
    LET result == calculate_retirement_needs(p)
        years_to_retirement == p.retirement_age - p.current_age
        inflation == 1 + ExactDiv(p.inflation_rate_tenths, 1000)
        future_annual_expenses == p.annual_expenses * Pow(inflation, years_to_retirement)
        retirement_corpus_needed == future_annual_expenses * 25
        monthly_rate == ExactDiv(p.expected_return, PercentPerYear)
        n_months == years_to_retirement * MonthsPerYear
        growth == Pow(1 + monthly_rate, n_months)
        future_value_current_savings == p.current_savings * growth
        future_value_contributions ==
            ExactDiv(p.monthly_contribution * (growth - 1), monthly_rate) * (1 + monthly_rate)
        total_future_value == future_value_current_savings + future_value_contributions
    IN  IF result.status # "success" \/ ~RetirementIsExact(p) THEN result
        ELSE Success([years_to_retirement |-> result.data.years_to_retirement,
                      years_in_retirement |-> result.data.years_in_retirement,
                      monthly_contribution |-> result.data.monthly_contribution,
                      future_annual_expenses |-> future_annual_expenses,
                      retirement_corpus_needed |-> retirement_corpus_needed,
                      future_value_current_savings |-> future_value_current_savings,
                      future_value_contributions |-> future_value_contributions,
                      total_future_value |-> total_future_value]
                     @@ RetirementOutcome(retirement_corpus_needed, total_future_value,
                                          p.monthly_contribution, monthly_rate, growth))

\* the default ages and three others; rates that are the defaults, zero, or
\* whole per month and per year
RetirementAges ==
    {<<RetirementDefaults.current_age, RetirementDefaults.retirement_age,
       RetirementDefaults.life_expectancy>>,
     <<64, 65, 90>>, <<65, 65, 90>>, <<40, 41, 80>>}

RetirementInputs ==
    {[current_age |-> a[1], retirement_age |-> a[2], life_expectancy |-> a[3],
      annual_expenses |-> e, inflation_rate_tenths |-> i, current_savings |-> s,
      monthly_contribution |-> m, expected_return |-> r] :
         a \in RetirementAges,
         e \in {1000, RetirementDefaults.annual_expenses},
         i \in {0, RetirementDefaults.inflation_rate_tenths, 1000},
         s \in {0, 1000, 25000},
         m \in {0, RetirementDefaults.monthly_contribution},
         r \in {0, RetirementDefaults.expected_return, PercentPerYear}}

EvaluateRetirement ==
    /\ evaluation.function = "calculate_retirement_needs"
    /\ ~evaluation.done
    /\ evaluation' = [evaluation EXCEPT
           !.output = retirement_needs(evaluation.input),
           !.done = TRUE]
    /\ UNCHANGED pipeline_vars

Magnitude(n) == IF n < 0 THEN -n ELSE n

(***************************************************************************)
(* C16: in a successful calculate_retirement_needs result,                 *)
(* years_to_retirement = retirement_age - current_age and                  *)
(* years_in_retirement = life_expectancy - retirement_age (35 and 25 for   *)
(* the default ages); is_surplus is true exactly when total_future_value   *)
(* exceeds retirement_corpus_needed; shortfall_or_surplus is the           *)
(* non-negative magnitude of their difference; and                         *)
(* required_monthly_contribution is monthly_contribution whenever there is *)
(* no shortfall.                                                           *)
(***************************************************************************)
C16_RetirementResultConsistent ==
    (Evaluated("calculate_retirement_needs") /\ evaluation.output.status = "success") =>
        LET p == evaluation.input
            data == evaluation.output.data
            d == RetirementDefaults
        IN  /\ data.years_to_retirement = p.retirement_age - p.current_age
            /\ data.years_in_retirement = p.life_expectancy - p.retirement_age
            /\ (/\ p.current_age = d.current_age
                /\ p.retirement_age = d.retirement_age
                /\ p.life_expectancy = d.life_expectancy)
                   => data.years_to_retirement = 35 /\ data.years_in_retirement = 25
            /\ "is_surplus" \in DOMAIN data =>
                   /\ data.is_surplus <=>
                          data.total_future_value > data.retirement_corpus_needed
                   /\ data.shortfall_or_surplus >= 0
                   /\ data.shortfall_or_surplus =
                          Magnitude(data.retirement_corpus_needed - data.total_future_value)
                   /\ data.total_future_value >= data.retirement_corpus_needed =>
                          data.required_monthly_contribution =
                              [contribution |-> p.monthly_contribution, extra |-> <<0, 1>>]

\* a plan a year from retirement ends in a surplus
C16_Witness ==
    /\ Evaluated("calculate_retirement_needs")
    /\ evaluation.output.status = "success"
    /\ "is_surplus" \in DOMAIN evaluation.output.data
    /\ evaluation.output.data.years_to_retirement = 1
    /\ evaluation.output.data.is_surplus
    /\ evaluation.output.data.shortfall_or_surplus > 0
    /\ evaluation.output.data.required_monthly_contribution.contribution =
           RetirementDefaults.monthly_contribution

\* variant: the initial investment is not counted as a contribution
InvestmentEnter_ContributionsFromZero(initial_investment, monthly_contribution, annual_return, years) ==
    [i |-> 1, balance |-> initial_investment, total_contribution |-> 0,
     total_interest |-> 0, balances |-> <<>>, contributions |-> <<>>,
     interests |-> <<>>, monthly_contribution |-> monthly_contribution,
     monthly_rate |-> ExactDiv(annual_return, PercentPerYear),
     n_months |-> years * MonthsPerYear]

\* lines 184-199: up to the loop.  The loop variables are i, the month about
\* to be added, balance, the two totals and the three yearly lists.
InvestmentEnter(initial_investment, monthly_contribution, annual_return, years) ==
    [i |-> 1, balance |-> initial_investment,
     total_contribution |-> initial_investment,
     total_interest |-> 0, balances |-> <<>>, contributions |-> <<>>,
     interests |-> <<>>, monthly_contribution |-> monthly_contribution,
     monthly_rate |-> ExactDiv(annual_return, PercentPerYear),
     n_months |-> years * MonthsPerYear]

\* lines 202-217: one pass of the loop
InvestmentIterate(loop) ==
    LET contributed == loop.balance + loop.monthly_contribution
        total_contribution == loop.total_contribution + loop.monthly_contribution
        interest == contributed * loop.monthly_rate
        balance == contributed + interest
        total_interest == loop.total_interest + interest
        yearly == loop.i % MonthsPerYear = 0
        year == loop.i \div MonthsPerYear
    IN  [loop EXCEPT
            !.i = loop.i + 1,
            !.balance = balance,
            !.total_contribution = total_contribution,
            !.total_interest = total_interest,
            !.balances = IF yearly THEN Append(@, <<year, balance>>) ELSE @,
            !.contributions = IF yearly THEN Append(@, <<year, total_contribution>>) ELSE @,
            !.interests = IF yearly THEN Append(@, <<year, total_interest>>) ELSE @]

\* lines 219-229
InvestmentReturn(loop) ==
    Success([final_balance |-> loop.balance,
             total_contributions |-> loop.total_contribution,
             total_interest |-> loop.total_interest,
             yearly_balances |-> loop.balances,
             yearly_contributions |-> loop.contributions,
             yearly_interests |-> loop.interests])

MaxInvestmentYears == 3

\* investments without return over 0..MaxInvestmentYears years, and of at
\* most one year at a monthly_rate of 1
InvestmentInputs ==
    {[initial_investment |-> a, monthly_contribution |-> m, annual_return |-> 0,
      years |-> y] :
         a \in {-100, 0, 100, 1000}, m \in {0, 10}, y \in 0..MaxInvestmentYears}
      \cup {[initial_investment |-> a, monthly_contribution |-> m,
             annual_return |-> PercentPerYear, years |-> y] :
                a \in {-100, 0, 100, 1000}, m \in {0, 10}, y \in {0, 1}}

\* calculate_investment_growth is entered (its status-level result is always
\* a success) and the loop begins
InvestmentGrowthEnter ==
    /\ Evaluating("calculate_investment_growth")
    /\ evaluation.loop = None
    /\ LET p == evaluation.input
           result == calculate_investment_growth(p.initial_investment,
                         p.monthly_contribution, p.annual_return, p.years)
       IN  evaluation' =
               IF result.status # "success"
               THEN [evaluation EXCEPT !.output = result, !.done = TRUE]
               ELSE [evaluation EXCEPT
                        !.loop = InvestmentEnter(p.initial_investment,
                                     p.monthly_contribution, p.annual_return, p.years)]
    /\ UNCHANGED pipeline_vars

InvestmentGrowthIterate ==
    /\ Evaluating("calculate_investment_growth")
    /\ evaluation.loop # None
    /\ evaluation.loop.i <= evaluation.loop.n_months
    /\ evaluation' = [evaluation EXCEPT !.loop = InvestmentIterate(evaluation.loop)]
    /\ UNCHANGED pipeline_vars

InvestmentGrowthReturn ==
    /\ Evaluating("calculate_investment_growth")
    /\ evaluation.loop # None
    /\ evaluation.loop.i > evaluation.loop.n_months
    /\ evaluation' = [evaluation EXCEPT
           !.output = InvestmentReturn(evaluation.loop), !.done = TRUE]
    /\ UNCHANGED pipeline_vars

(***************************************************************************)
(* C17: for every initial_investment and every years >= 0,                 *)
(* calculate_investment_growth with monthly_contribution = 0 and           *)
(* annual_return = 0 returns final_balance = initial_investment exactly,   *)
(* total_interest = 0 and total_contributions = initial_investment.        *)
(***************************************************************************)
C17_NoGrowthNoContribution ==
    (/\ Evaluated("calculate_investment_growth")
     /\ evaluation.input.monthly_contribution = 0
     /\ evaluation.input.annual_return = 0
     /\ evaluation.input.years >= 0) =>
        /\ evaluation.output.status = "success"
        /\ evaluation.output.data.final_balance = evaluation.input.initial_investment
        /\ evaluation.output.data.total_interest = 0
        /\ evaluation.output.data.total_contributions = evaluation.input.initial_investment

\* an investment of 1000 was left alone for the longest term: the loop ran
\* for every month and recorded every year
C17_Witness ==
    /\ Evaluated("calculate_investment_growth")
    /\ evaluation.input.monthly_contribution = 0
    /\ evaluation.input.annual_return = 0
    /\ evaluation.input.years = MaxInvestmentYears
    /\ evaluation.input.initial_investment = 1000
    /\ evaluation.output.data.final_balance = 1000
    /\ Len(evaluation.output.data.yearly_balances) = MaxInvestmentYears

\* the tickers of the queries that name one, each with every provider outcome
StockInputs ==
    {[ticker |-> extract_ticker_symbols(q)[1], provider |-> p] :
         q \in {QPriceOfAAPL, QTickerTSLA}, p \in ProviderOutcomes}

EvaluateStock ==
    /\ evaluation.function = "get_stock_data"
    /\ ~evaluation.done
    /\ evaluation' = [evaluation EXCEPT
           !.output = get_stock_data(evaluation.input.ticker, evaluation.input.provider),
           !.done = TRUE]
    /\ UNCHANGED pipeline_vars

Calculators ==
    {"get_stock_data", "calculate_loan_payment", "calculate_investment_growth",
     "calculate_retirement_needs", "analyze_budget"}

\* the operation each calculator names in the message of its error result
FailureMessage(function_name) ==
    CASE function_name = "get_stock_data" -> "Failed to retrieve stock data"
      [] function_name = "calculate_loan_payment" -> "Failed to calculate loan payment"
      [] function_name = "calculate_investment_growth" -> "Failed to calculate investment growth"
      [] function_name = "calculate_retirement_needs" -> "Failed to calculate retirement needs"
      [] function_name = "analyze_budget" -> "Failed to analyze budget"

(***************************************************************************)
(* C20: each of the five calculators returns, for every input, the ones    *)
(* that make its arithmetic fault or the provider raise included, either   *)
(* {status: success, data} or {status: error, message}, the message naming *)
(* the operation that failed; none raises to its caller.                   *)
(***************************************************************************)
C20_CalculatorsAlwaysReturnResult ==
    (evaluation.function \in Calculators /\ evaluation.done) =>
        \/ /\ evaluation.output.status = "success"
           /\ DOMAIN evaluation.output = {"status", "data"}
        \/ /\ evaluation.output.status = "error"
           /\ DOMAIN evaluation.output = {"status", "message"}
           /\ evaluation.output.message = FailureMessage(evaluation.function)

\* a loan over zero years makes the payment formula divide by zero, and the
\* calculator answered with its error result
C20_Witness ==
    /\ Evaluated("calculate_loan_payment")
    /\ evaluation.input.years = 0
    /\ evaluation.output = Error("Failed to calculate loan payment")

EvaluationInputs ==
    {Evaluation("extract_loan_parameters", i) : i \in LoanExtractionInputs}
        \cup {Evaluation("extract_retirement_parameters", i) : i \in RetirementExtractionInputs}
        \cup {Evaluation("extract_budget_parameters", i) : i \in BudgetExtractionInputs}
        \cup {Evaluation("calculate_loan_payment", i) : i \in LoanInputs}
        \cup {Evaluation("calculate_loan_payment: totals", i) : i \in LoanTotalsInputs}
        \cup {Evaluation("analyze_budget", i) : i \in BudgetInputs}
        \cup {Evaluation("calculate_retirement_needs", i) : i \in RetirementInputs}
        \cup {Evaluation("calculate_investment_growth", i) : i \in InvestmentInputs}
        \cup {Evaluation("get_stock_data", i) : i \in StockInputs}

InitFunctions ==
    /\ Idle(Threads)
    /\ evaluation \in EvaluationInputs

NextFunctions ==
    \/ EvaluateLoanExtractor
    \/ EvaluateRetirementExtractor
    \/ EvaluateBudgetExtractor
    \/ LoanPaymentEnter
    \/ LoanPaymentIterate
    \/ LoanPaymentReturn
    \/ EvaluateLoanTotals
    \/ EvaluateBudget
    \/ EvaluateRetirement
    \/ InvestmentGrowthEnter
    \/ InvestmentGrowthIterate
    \/ InvestmentGrowthReturn
    \/ EvaluateStock

SpecFunctions == InitFunctions /\ [][NextFunctions]_vars

(***************************************************************************)
(* Network round trips of one call.                                        *)
(***************************************************************************)
StepsWhere(t, ops) == {i \in DOMAIN steps[t] : steps[t][i].op \in ops}

\* requests to the language model: the primary call, the call of an
\* extractor, the follow-up call
LlmRoundTrips(t) ==
    Cardinality(StepsWhere(t, {"primary_call", "extract", "followup_call"}))

\* requests to the market-data provider
MarketRoundTrips(t) ==
    Cardinality({i \in DOMAIN steps[t] :
                     steps[t][i].op = "provider" /\ steps[t][i].arg # "not_called"})

(***************************************************************************)
(* C19: processing one query performs at most two round trips to the       *)
(* language model (the primary call and one extraction or follow-up call)  *)
(* and, for stock queries only, one market-data round trip.                *)
(***************************************************************************)
C19_AtMostTwoLlmRoundTrips ==
    \A t \in Calls :
        /\ LlmRoundTrips(t) <= 2
        /\ MarketRoundTrips(t) <= 1
        /\ MarketRoundTrips(t) = 1 => domain[t] = "stock"

\* C19 as the code has it: at most three round trips to the language model,
\* one primary, at most one extraction, at most one follow-up; a stock query
\* makes no extraction call, so at most two, and at most one market-data
\* round trip, which no other query makes; each round trip starts after the
\* one before it has ended
C19_AtMostThreeLlmRoundTrips ==
    \A t \in Calls :
        /\ LlmRoundTrips(t) <= 3
        /\ Cardinality(StepsWhere(t, {"primary_call"})) <= 1
        /\ Cardinality(StepsWhere(t, {"extract"})) <= 1
        /\ Cardinality(StepsWhere(t, {"followup_call"})) <= 1
        /\ MarketRoundTrips(t) <= 1
        /\ domain[t] = "stock" => LlmRoundTrips(t) <= 2
        /\ domain[t] # "stock" => MarketRoundTrips(t) = 0
        /\ \A i \in StepsWhere(t, {"extract", "provider", "followup_call"}) :
               \E j \in StepsWhere(t, {"primary_reply"}) : j < i
        /\ \A i \in StepsWhere(t, {"followup_call"}) :
               \A j \in StepsWhere(t, {"extract", "provider"}) : j < i

\* a loan query went to the language model three times and returned
C19_Witness ==
    \E t \in Calls :
        /\ Returned(t)
        /\ domain[t] = "loan"
        /\ LlmRoundTrips(t) = 3
        /\ HasOp(t, "extract")
        /\ HasEv(t, "followup_reply", "choices")

(***************************************************************************)
(* Two requests at once.  src/app.py has one global bot and its route      *)
(* calls bot.process_query with no lock; the server gives each request a   *)
(* thread.  Each of two threads serves one request, and the steps of the   *)
(* two calls interleave freely.                                            *)
(***************************************************************************)
ConcurrentThreads == {1, 2}

ConcurrentQueries == {QTickerTSLA, QMortgagePayment, QHello}

InitConcurrent ==
    /\ Idle(ConcurrentThreads)
    /\ evaluation = NoEvaluation

NextConcurrent ==
    \/ \E t \in DOMAIN pc, q \in ConcurrentQueries : Start(t, q)
    \/ \E t \in DOMAIN pc : PrimarySend(t)
    \/ \E t \in DOMAIN pc, out \in ChatOutcomes : PrimaryReceive(t, out)
    \/ \E t \in DOMAIN pc : Route(t)
    \/ \E t \in DOMAIN pc : \E resp \in ExtractionOutcomes(domain[t]) : Extract(t, resp)
    \/ \E t \in DOMAIN pc : ReturnPlain(t)
    \/ \E t \in DOMAIN pc : \E provider \in ProvidersFor(t) : Execute(t, provider)
    \/ \E t \in DOMAIN pc : AppendResult(t)
    \/ \E t \in DOMAIN pc : FollowupSend(t)
    \/ \E t \in DOMAIN pc, out \in ChatOutcomes : FollowupReceive(t, out)

SpecConcurrent == InitConcurrent /\ [][NextConcurrent]_vars

\* the transcript index of the assistant turn appended last by any call
LatestAssistantAt == Max({assistant_at[u] : u \in Calls})

\* thread t receives its narration in this step
ReceivesNarration(t) ==
    /\ pc[t] = "followup_wait"
    /\ pc'[t] = "done"
    /\ updated_response'[t] # ""

C18_Step ==
    \A t \in Calls :
        ReceivesNarration(t) =>
            /\ conversation_history'[LatestAssistantAt].content =
                   ModelContent(updated_response'[t])
            /\ Len(conversation_history') = Len(conversation_history)
            /\ \A i \in DOMAIN conversation_history :
                   i # LatestAssistantAt => conversation_history'[i] = conversation_history[i]
            /\ \A u \in Calls :
                   assistant_at[u] > assistant_at[t] =>
                       conversation_history'[assistant_at[t]].content =
                           ModelContent(assistant_response[t])

(***************************************************************************)
(* C18: with two process_query calls running at once on the one bot, the   *)
(* follow-up narration of a call replaces the assistant turn that was      *)
(* appended last, whichever call appended it; when the other call's        *)
(* primary reply was appended after this call's, the narration overwrites  *)
(* the other call's turn and this call's own turn keeps its primary reply. *)
(* Nothing in the code orders the two calls.                               *)
(***************************************************************************)
C18_NarrationOverwritesLatestTurn == [][C18_Step]_vars

\* call t has returned its narration, which now stands in the assistant turn
\* of call u in place of u's primary reply, while t's own turn still holds
\* t's primary reply
C18_Witness ==
    \E t, u \in Calls :
        /\ t # u
        /\ Returned(t)
        /\ HasOp(t, "replace_assistant")
        /\ ~HasOp(u, "replace_assistant")
        /\ assistant_at[t] > 0
        /\ assistant_at[u] > assistant_at[t]
        /\ assistant_response[u] # updated_response[t]
        /\ conversation_history[assistant_at[u]].content = ModelContent(updated_response[t])
        /\ conversation_history[assistant_at[t]].content = ModelContent(assistant_response[t])

(***************************************************************************)
(* C21: the schedule returned by calculate_loan_payment has at most 10     *)
(* entries with strictly increasing payment numbers, each a month of year  *)
(* 1, a multiple of 12 or the final month; the cap keeps the first 10      *)
(* selected entries, so for a loan of one year or more the returned        *)
(* entries are exactly payments 1 to 10.                                   *)
(***************************************************************************)
C21_ScheduleIsFirstTenPayments ==
    (Evaluated("calculate_loan_payment") /\ evaluation.output.status = "success") =>
        LET data == evaluation.output.data
            schedule == data.schedule
        IN  /\ Len(schedule) <= 10
            /\ \A i, j \in DOMAIN schedule :
                   i < j => schedule[i].payment_number < schedule[j].payment_number
            /\ \A i \in DOMAIN schedule :
                   \/ schedule[i].payment_number \in 1..12
                   \/ schedule[i].payment_number % 12 = 0
                   \/ schedule[i].payment_number = data.total_payments
            /\ evaluation.input.years >= 1 =>
                   /\ Len(schedule) = 10
                   /\ \A i \in 1..10 : schedule[i].payment_number = i

\* a loan of more than a year was evaluated: the loop selected the twelve
\* months of year 1, later year ends and the final month, and ten came back
C21_Witness ==
    /\ Evaluated("calculate_loan_payment")
    /\ evaluation.input.years > 1
    /\ Len(evaluation.loop.schedule) > 12
    /\ evaluation.loop.schedule[Len(evaluation.loop.schedule)].payment_number =
           evaluation.loop.n_payments
    /\ Len(evaluation.output.data.schedule) = 10

\* a loan without interest, with a principal and a term
ZeroRateLoan ==
    /\ evaluation.input.interest_rate = 0
    /\ evaluation.input.principal > 0
    /\ evaluation.input.years >= 1

\* a loan without interest succeeds, and every returned entry has no
\* interest and the whole payment as principal
ZeroRateSchedule ==
    (Evaluated("calculate_loan_payment") /\ ZeroRateLoan) =>
        /\ evaluation.output.status = "success"
        /\ \A i \in DOMAIN evaluation.output.data.schedule :
               LET entry == evaluation.output.data.schedule[i]
               IN  /\ entry.interest_paid = 0
                   /\ entry.principal_paid = entry.payment_amount

\* on the loans whose arithmetic is exact, the totals of a loan without
\* interest are the principal and no interest, and the two parts of every
\* entry add up to the payment at any rate
ExactLoanTotals ==
    (Evaluated("calculate_loan_payment") /\ evaluation.output.status = "success") =>
        LET data == evaluation.output.data
        IN  /\ ZeroRateLoan =>
                /\ data.monthly_payment * data.total_payments = evaluation.input.principal
                /\ data.total_interest = 0
            /\ \A i \in DOMAIN data.schedule :
                   data.schedule[i].interest_paid + data.schedule[i].principal_paid =
                       data.schedule[i].payment_amount

\* equal doubles, or neighbours
WithinOneUlp(d1, d2) == d1 = d2 \/ d1 = DoubleSucc(d2) \/ d2 = DoubleSucc(d1)

AnalysedBudget ==
    Evaluated("analyze_budget") /\ evaluation.input.expenses_dict.t = "obj"

\* the sum of the amounts of the supplied categories that are in the list
BucketTotal(categories) ==
    LET expenses == evaluation.input.expenses_dict.v
    IN  SumOver([c \in DOMAIN expenses |-> IF c \in categories THEN expenses[c] ELSE 0],
                DOMAIN expenses)

(***************************************************************************)
(* C23: with income > 0 every supplied category, one that is in none of    *)
(* the three lists included (names are compared case-sensitively), has an  *)
(* entry (amount / income) * 100 in category_percentages; the needs and    *)
(* wants percentages are those of the sums of the supplied categories of   *)
(* their own list, and the savings/debt percentage is that of the sum of   *)
(* its list plus the leftover savings.                                     *)
(***************************************************************************)
C23_PercentagesAndBucketTotals ==
    (AnalysedBudget /\ evaluation.input.income > 0) =>
        LET income == evaluation.input.income
            expenses == evaluation.input.expenses_dict.v
            data == evaluation.output.data
        IN  /\ evaluation.output.status = "success"
            /\ DOMAIN data.category_percentages = DOMAIN expenses
            /\ \A c \in DOMAIN expenses :
                   data.category_percentages[c] * income = expenses[c] * 100
            /\ data.rule_assessment.needs.actual * income =
                   BucketTotal(NeedsCategories) * 100
            /\ data.rule_assessment.wants.actual * income =
                   BucketTotal(WantsCategories) * 100
            /\ data.rule_assessment.savings_debt.actual * income =
                   (BucketTotal(SavingsCategories) + InputSavings) * 100

\* a budget with "housing", "Housing", a want and a saving: "Housing" has
\* its percentage and counts in no bucket, so the three bucket percentages
\* stay below the whole of the income
C23_Witness ==
    /\ AnalysedBudget
    /\ evaluation.input.income = 5000
    /\ DOMAIN evaluation.input.expenses_dict.v = {"housing", "Housing", "dining", "savings"}
    /\ evaluation.input.expenses_dict.v["Housing"] = 1500
    /\ evaluation.output.data.category_percentages["Housing"] = 30
    /\ evaluation.output.data.rule_assessment.needs.actual = 10
    /\ evaluation.output.data.rule_assessment.needs.actual
         + evaluation.output.data.rule_assessment.wants.actual
         + evaluation.output.data.rule_assessment.savings_debt.actual < 100

\* the place of a category in the order of the analysed mapping's items
InputPosition(category) == Position(evaluation.input.keys, category)

(***************************************************************************)
(* C24: top_expenses holds min(3, number of categories) items, the         *)
(* categories with the largest amounts in descending order of amount, and  *)
(* categories with equal amounts keep the order they have in the mapping.  *)
(***************************************************************************)
C24_TopExpensesStableDescending ==
    AnalysedBudget =>
        LET expenses == evaluation.input.expenses_dict.v
            top == evaluation.output.data.top_expenses
            chosen == {top[i][1] : i \in DOMAIN top}
        IN  /\ Len(top) = Min(3, Cardinality(DOMAIN expenses))
            /\ \A i \in DOMAIN top :
                   top[i][1] \in DOMAIN expenses /\ top[i][2] = expenses[top[i][1]]
            /\ Cardinality(chosen) = Len(top)
            /\ \A i, j \in DOMAIN top :
                   i < j => \/ top[i][2] > top[j][2]
                            \/ /\ top[i][2] = top[j][2]
                               /\ InputPosition(top[i][1]) < InputPosition(top[j][1])
            /\ \A c \in chosen, d \in DOMAIN expenses \ chosen :
                   \/ expenses[c] > expenses[d]
                   \/ /\ expenses[c] = expenses[d]
                      /\ InputPosition(c) < InputPosition(d)

\* four categories, the first and the last of the mapping with the smaller
\* amount: the two larger ones lead in their order, the first item is third
\* and the last item is left out
C24_Witness ==
    /\ AnalysedBudget
    /\ Len(evaluation.input.keys) = 4
    /\ evaluation.input.expenses_dict.v[evaluation.input.keys[1]] = 500
    /\ evaluation.input.expenses_dict.v[evaluation.input.keys[2]] = 1500
    /\ evaluation.input.expenses_dict.v[evaluation.input.keys[3]] = 1500
    /\ evaluation.input.expenses_dict.v[evaluation.input.keys[4]] = 500
    /\ evaluation.output.data.top_expenses =
           << <<evaluation.input.keys[2], 1500>>, <<evaluation.input.keys[3], 1500>>,
              <<evaluation.input.keys[1], 500>> >>

\* the primary call of thread t failed: no choices, or an exception
PrimaryFailed(t) ==
    HasEv(t, "primary_reply", "nochoices") \/ HasEv(t, "primary_reply", "raises")

(***************************************************************************)
(* C25: within one query the primary LLM call is issued first, with a      *)
(* transcript whose last turn is the new user turn: nothing is routed,     *)
(* extracted or calculated before it.  If the primary call returns no      *)
(* choices or raises, no branch is entered, no extractor and no calculator *)
(* runs, and no assistant or system turn is appended for the query.        *)
(***************************************************************************)
C25_PrimaryCallFirst ==
    \A t \in Calls :
        /\ pc[t] = "primary_send" =>
               /\ steps[t] = <<>>
               /\ domain[t] = "none" /\ extraction[t] = None /\ function_result[t] = None
        /\ pc[t] = "primary_wait" =>
               /\ steps[t] = << Ev("primary_call", "") >>
               /\ sent[t] # <<>>
               /\ sent[t][Len(sent[t])] = Turn("user", QueryContent(query[t]))
        /\ steps[t] # <<>> =>
               /\ steps[t][1] = Ev("primary_call", "")
               /\ StepsWhere(t, {"primary_call"}) = {1}
        /\ PrimaryFailed(t) =>
               /\ StepsWhere(t, {"route", "extract", "calculator", "append_result",
                                 "followup_call"}) = {}
               /\ extraction[t] = None /\ function_call[t] = None
               /\ function_result[t] = None
               /\ conversation_history =
                      Append(entry_history[t], Turn("user", QueryContent(query[t])))
               /\ Returned(t) /\ reply[t].status = "error"

\* a query that names a loan came after an answered one, its primary call
\* raised, and the call returned with the user turn the last of the transcript
C25_Witness ==
    \E t \in Calls :
        /\ Returned(t)
        /\ HasEv(t, "primary_reply", "raises")
        /\ RouteDomain(query[t]) = "loan"
        /\ AssistantIndexes(entry_history[t]) # {}
        /\ steps[t] = << Ev("primary_call", ""), Ev("primary_reply", "raises") >>
        /\ conversation_history[Len(conversation_history)].role = "user"

C26_Step ==
    \A t \in Calls :
        /\ \A i \in DOMAIN steps'[t] : steps'[t][i].op # "append_assistant"
        /\ ReceivesNarration(t) =>
               LET h == conversation_history
                   h2 == conversation_history'
               IN  /\ assistant_at[t] = Len(h) - 1
                   /\ assistant_at[t] = Len(entry_history[t]) + 2
                   /\ h[Len(h)].role = "system"
                   /\ h[assistant_at[t]] =
                          Turn("assistant", ModelContent(assistant_response[t]))
                   /\ h2 = [h EXCEPT ![assistant_at[t]].content =
                                         ModelContent(updated_response'[t])]
                   /\ \A i \in DOMAIN entry_history[t] : h2[i] = entry_history[t][i]

(***************************************************************************)
(* C26: when the calls are serialized, the assistant turn a follow-up      *)
(* narration overwrites is the one the primary call of the same query      *)
(* appended, the turn just before the system turn with the function        *)
(* result; a narration is never appended as a new turn, and no turn of an  *)
(* earlier query is modified.                                              *)
(***************************************************************************)
C26_NarrationOverwritesOwnTurn == [][C26_Step]_vars

\* the second query of a session was narrated: the assistant turn of the
\* first query is as it was, and the narration stands two turns after the
\* transcript the query found
C26_Witness ==
    \E t \in Calls :
        /\ Returned(t)
        /\ updated_response[t] # ""
        /\ updated_response[t] # assistant_response[t]
        /\ AssistantIndexes(entry_history[t]) # {}
        /\ SubSeq(conversation_history, 1, Len(entry_history[t])) = entry_history[t]
        /\ LastAssistantIndex(conversation_history) = Len(entry_history[t]) + 2
        /\ conversation_history[Len(entry_history[t]) + 2].content =
               ModelContent(updated_response[t])
        /\ Len(conversation_history) = Len(entry_history[t]) + 3

\* expected_return is 0: line 274 divides by monthly_rate
ZeroRate(p) == p.expected_return = 0

\* retirement is now and the savings are short of 25 times the expenses:
\* line 284 divides by (1 + monthly_rate) ** 0 - 1
NoMonthLeftAndShort(p) ==
    /\ p.retirement_age = p.current_age
    /\ p.annual_expenses * 25 - p.current_savings > 0

RetirementError == Error("Failed to calculate retirement needs")

\* the calculator on each of the retirement plans of RetirementInputs
RetirementFailsOnInputs ==
    \A p \in RetirementInputs :
        (ZeroRate(p) \/ NoMonthLeftAndShort(p)) =>
            calculate_retirement_needs(p) = RetirementError

(***************************************************************************)
(* C27: calculate_retirement_needs has no zero-rate guard: with            *)
(* expected_return 0 it returns its error result whatever the other inputs *)
(* are, and so it does when retirement_age equals current_age and there is *)
(* a shortfall; the dispatcher appends and narrates that result like any   *)
(* other, and the reply has the top-level status success with the error    *)
(* result as function_result.                                              *)
(***************************************************************************)
C27_ZeroRateRetirementFails ==
    /\ RetirementFailsOnInputs
    /\ \A t \in Calls :
           (/\ function_call[t] # None
            /\ function_call[t].function = "calculate_retirement_needs"
            /\ function_result[t] # None
            /\ \/ ZeroRate(function_call[t].parameters)
               \/ NoMonthLeftAndShort(function_call[t].parameters)) =>
               /\ function_result[t] = RetirementError
               /\ (Returned(t) /\ HasEv(t, "followup_reply", "choices")) =>
                      /\ HasOp(t, "append_result")
                      /\ reply[t] = FunctionReply(query[t], updated_response[t],
                                                  RetirementError)
                      /\ reply[t].status = "success"
                      /\ conversation_history[assistant_at[t]].content =
                             ModelContent(updated_response[t])

\* a retirement query whose extracted expected_return is 0 was answered: the
\* reply is a success that carries the calculator's error result
C27_Witness ==
    \E t \in Calls :
        /\ Returned(t)
        /\ function_call[t] # None
        /\ function_call[t].function = "calculate_retirement_needs"
        /\ function_call[t].parameters.expected_return = 0
        /\ function_call[t].parameters.retirement_age # function_call[t].parameters.current_age
        /\ HasEv(t, "followup_reply", "choices")
        /\ reply[t].status = "success"
        /\ reply[t].function_result = RetirementError

====
